---- MODULE Spec2Model ----
(***************************************************************************)
(* geolinkage: classification of the surface scheme (GeoKernel), the river *)
(* segment tree (RiverNode) and its use by RiverProcess.                   *)
(*                                                                         *)
(* Names are sequences of characters, so that string equality, string      *)
(* concatenation and difflib's quick_ratio are computed and not assumed.   *)
(* Node ids and arc ids are WEAP ObjIDs: one id space for the whole        *)
(* schematic, so a node and an arc never share an id.                      *)
(***************************************************************************)
EXTENDS Integers, Sequences, FiniteSets, TLC

VARIABLES
    pc,                 \* the position of the run in the pipeline
    nodes,              \* GeoKernel.nodes: ObjID -> [type_id, name]
    arcs,               \* GeoKernel.arcs: ObjID -> [type_id, src_id, dst_id]
    links,              \* GeoKernel.links: 'tl' | 'ri' | 'rf' -> (source id -> destination id)
    rivers,             \* GeoKernel.rivers: ObjID -> [name, id, cat, type]
    river_break_nodes,  \* GeoKernel.river_break_nodes: ObjID -> break node
    warnings,           \* ErrorManager._warnings of the GeoKernel feature type
    errors,             \* ErrorManager._errors of the GeoKernel feature type
    arcmap,             \* the lines of the arc layer read so far
    tree,               \* the RiverNode objects, the root first
    children,           \* RiverNode.children of each object of tree, in attachment order
    break_keys,         \* the break node keys _make_river_tree_segments_structure has left
    river_segments,     \* RiverNode.river_segments of the root
    segments_list,      \* the class variable RiverNode.segments_list
    segments_str,       \* the rows handed to v.segment
    segment_map,        \* the attribute table of the segment map: cat -> names
    run,                \* the number of the run within the process
    processor,          \* the FeatureProcess at work: its class and its imported maps
    map_ix,             \* the place of make_grid_cell in the maps of the layer
    demand_sites,       \* GeoKernel's demand sites by name: is_well and processed
    cells,              \* FeatureProcess.cells: cell -> the features, in insertion order
    cell_ids,           \* FeatureProcess.cell_ids: cell -> the ordered features
    fed,                \* what _set_cell has received: <<cell, feature>> -> count and total
    linkage,            \* the values the layer wrote in the linkage map: cell -> columns
    consolidate_cells,  \* GeoCheck._consolidate_cells: its size, and the cell under check
    connectivity,       \* GeoCase.connectivity of each case of GeoCheck
    case_errors,        \* GeoCase.errors of each case of GeoCheck
    check,              \* GeoCheck._check
    failed,             \* how often check_cell has refused <<case, base, secondary>>
    superposition,      \* the SuperpositionCheck object: its dictionaries and its errors
    loops,              \* GeoChecker: the loop at work and the items it has passed
    app                 \* AppKernel.run: where it is, what it ran, what came of it

geoVars == <<nodes, arcs, links, rivers, river_break_nodes, warnings, errors, arcmap>>

treeVars == <<tree, children, break_keys, river_segments, segments_list, segments_str,
              segment_map, run>>

gridVars == <<processor, map_ix, demand_sites, cells, cell_ids, fed, linkage>>

checkVars == <<consolidate_cells, connectivity, case_errors, check, failed>>

superVars == <<superposition, loops, app>>

postVars == <<gridVars, checkVars, superVars>>

vars == <<pc, geoVars, treeVars, postVars>>

----------------------------------------------------------------------------
(* Bounds of the model *)

\* the classification of links: points of the node layer, lines of the arc layer
MaxNodes == 3
MaxArcs == 2

\* the arcs of the scheme and the cells handed to SuperpositionCheck
MaxSuperArcs == 2
MaxSuperCells == 2

\* the links that leave the nodes of a scheme of three nodes
MaxSourceArcs == 2

\* one link against its two endpoints
MaxPairNodes == 2
MaxPairArcs == 1

\* one break node against one River or Canal line, and the largest distance of
\* the node from the beginning of the line
MaxResolveNodes == 1
MaxResolveArcs == 1
MaxResolveDist == 1

\* the river pipeline: break nodes and River/Canal lines read by one run, and the
\* largest distance of a break node from the beginning of a line
MaxBreakNodes == 2
MaxRiverArcs == 2
MaxDist == 2

\* the tree of rivers: break nodes, and the length of every river line
MaxTreeNodes == 2
MaxTreeDist == 3

\* repeated runs in one process: the runs, and the River lines each run reads
MaxRuns == 2
MaxRerunArcs == 1

----------------------------------------------------------------------------
(* Program constants *)

\* Python's None
None == -1

\* config.nodes_type_id: the TypeID codes of the node layer
node_type == [groundwater |-> 3, catchment |-> 21, demand_site |-> 1,
              return_flow_node |-> 17, tributary_inflow |-> 13,
              catchment_inflow_node |-> 23, river_withdrawal |-> 10,
              diversion_outflow |-> 11, reservoir |-> 4]

\* config.arc_type_id: the TypeID codes of the arc layer
arc_type == [runoff_infiltration |-> 22, transmission_link |-> 7, river |-> 6,
             canal |-> 15, return_flow |-> 8]

\* a TypeID that no branch of the node dispatch names ('other')
OtherNodeType == 0

\* the first ObjID handed to an arc (arcs and nodes share no ObjID)
ArcIdBase == 100

\* the empty function (an empty dict)
EmptyDict == [x \in {} |-> None]

\* the empty name (None or '' in the attribute table)
NoName == <<>>

\* the default name given to an unnamed node: _point_name
DefaultPointName(type_id) ==
    CASE type_id = node_type.groundwater -> <<"groundwater">>
      [] type_id = node_type.catchment -> <<"catchment">>
      [] type_id = node_type.demand_site -> <<"demand site">>
      [] type_id = node_type.return_flow_node -> <<"return flow node">>
      [] type_id = node_type.tributary_inflow -> <<"tributary inflow">>
      [] type_id = node_type.catchment_inflow_node -> <<"catchment inflow node">>
      [] type_id = node_type.river_withdrawal -> <<"river withdrawal">>
      [] type_id = node_type.diversion_outflow -> <<"diversion outflow">>
      [] OTHER -> <<"other">>

\* the node types that break a river
BreakNodeTypes == {node_type.tributary_inflow, node_type.catchment_inflow_node,
                   node_type.river_withdrawal, node_type.diversion_outflow}

----------------------------------------------------------------------------
(* UtilMisc.get_similarity_rate: difflib.SequenceMatcher.quick_ratio *)

Min(a, b) == IF a <= b THEN a ELSE b

Chars(s) == {s[i] : i \in 1..Len(s)}

Count(s, c) == Cardinality({i \in 1..Len(s) : s[i] = c})

RECURSIVE SumMin(_, _, _)
SumMin(cs, a, b) ==
    IF cs = {} THEN 0
    ELSE LET c == CHOOSE x \in cs : TRUE
         IN Min(Count(a, c), Count(b, c)) + SumMin(cs \ {c}, a, b)

\* quick_ratio's "matches": the size of the multiset intersection of a and b
QuickMatches(a, b) == SumMin(Chars(a), a, b)

\* min_rate = 0.9, as the fraction MinRateNum / MinRateDen
MinRateNum == 9
MinRateDen == 10

\* d = 2.0 * matches / (len(a) + len(b)), 1.0 when both are empty; d >= min_rate
get_similarity_rate(a_words, b_words) ==
    IF Len(a_words) + Len(b_words) = 0 THEN TRUE
    ELSE 2 * QuickMatches(a_words, b_words) * MinRateDen
            >= MinRateNum * (Len(a_words) + Len(b_words))

\* ' Inflow'
InflowSuffix == <<" ", "I", "n", "f", "l", "o", "w">>

----------------------------------------------------------------------------
(* GeoKernel.processing_nodes_arcs: the node loop *)

NewBreakNode(point_id, point_name, point_type) ==
    [node_id |-> point_id, node_name |-> point_name, node_type |-> point_type,
     distance |-> None, main_river_id |-> None, main_distance |-> None,
     secondary_river_id |-> None, secondary_distance |-> None]

\* self.nodes after the point p
AddNode(tbl, p) ==
    tbl @@ (p.obj_id :> [type_id |-> p.type_id,
                         name |-> IF p.name = NoName THEN DefaultPointName(p.type_id)
                                  ELSE p.name])

\* self.river_break_nodes after the point p: only a named point of a break type
AddBreakNode(brk, p) ==
    IF p.type_id \in BreakNodeTypes /\ p.name # NoName
    THEN brk @@ (p.obj_id :> NewBreakNode(p.obj_id, p.name, p.type_id))
    ELSE brk

\* one iteration of "for p in nodemap.viter('points')"
ScanNode(p) ==
    /\ pc = "nodes"
    /\ p.obj_id \notin DOMAIN nodes
    /\ nodes' = AddNode(nodes, p)
    /\ river_break_nodes' = AddBreakNode(river_break_nodes, p)
    /\ UNCHANGED <<pc, arcs, links, rivers, warnings, errors, arcmap, treeVars>>
    /\ UNCHANGED postVars

----------------------------------------------------------------------------
(* GeoKernel._get_break_node_distance_from_arc *)

Warning(kind, arc_id, node_id) == [kind |-> kind, arc |-> arc_id, node |-> node_id]

\* BreakNodeOnArc without the branch of the similar name
BreakNodeOnArcExactOnly(break_node, river_arc) ==
    LET dist == river_arc.proj[break_node.node_id]
        arc_name == river_arc.name
        arc_id == river_arc.obj_id
        asSecondary == [break_node EXCEPT !.secondary_river_id = arc_id,
                                          !.secondary_distance = dist]
        asMain == [break_node EXCEPT !.main_river_id = arc_id,
                                     !.main_distance = dist,
                                     !.distance = dist]
    IN  IF break_node.node_name = NoName \/ dist = None THEN break_node
        ELSE IF break_node.node_type = 13
             THEN IF break_node.node_name = arc_name \o InflowSuffix THEN asSecondary
                  ELSE asMain
             ELSE asMain

\* the break node after one river arc has been tested against it
BreakNodeOnArc(break_node, river_arc) ==
    LET dist == river_arc.proj[break_node.node_id]
        arc_name == river_arc.name
        arc_id == river_arc.obj_id
        asSecondary == [break_node EXCEPT !.secondary_river_id = arc_id,
                                          !.secondary_distance = dist]
        asMain == [break_node EXCEPT !.main_river_id = arc_id,
                                     !.main_distance = dist,
                                     !.distance = dist]
    IN  IF break_node.node_name = NoName \/ dist = None THEN break_node
        ELSE IF break_node.node_type = 13
             THEN IF break_node.node_name = arc_name \o InflowSuffix THEN asSecondary
                  ELSE IF get_similarity_rate(break_node.node_name, arc_name \o InflowSuffix)
                       THEN asSecondary
                       ELSE asMain
             ELSE asMain

\* the warning of the tolerated name mismatch
BreakNodeWarns(break_node, river_arc) ==
    /\ break_node.node_name # NoName
    /\ river_arc.proj[break_node.node_id] # None
    /\ break_node.node_type = 13
    /\ break_node.node_name # river_arc.name \o InflowSuffix
    /\ get_similarity_rate(break_node.node_name, river_arc.name \o InflowSuffix)

\* the ids of a dict in iteration (insertion) order; ids are handed out in scan order
RECURSIVE KeysInOrder(_)
KeysInOrder(S) ==
    IF S = {} THEN <<>>
    ELSE LET m == CHOOSE x \in S : \A y \in S : x <= y
         IN <<m>> \o KeysInOrder(S \ {m})

RECURSIVE BreakWarnings(_, _, _)
BreakWarnings(keys, brk, river_arc) ==
    IF keys = <<>> THEN <<>>
    ELSE (IF BreakNodeWarns(brk[Head(keys)], river_arc)
          THEN <<Warning("similar_name", river_arc.obj_id, Head(keys))>>
          ELSE <<>>) \o BreakWarnings(Tail(keys), brk, river_arc)

_get_break_node_distance_from_arc(brk, river_arc) ==
    [b \in DOMAIN brk |-> BreakNodeOnArc(brk[b], river_arc)]

----------------------------------------------------------------------------
(* GeoKernel.processing_nodes_arcs: the arc loop *)

\* the link dictionary of an arc type, or "" for an arc that is no link
LinkKey(line_type_id) ==
    CASE line_type_id = arc_type.runoff_infiltration -> "ri"
      [] line_type_id = arc_type.transmission_link -> "tl"
      [] line_type_id = arc_type.return_flow -> "rf"
      [] OTHER -> ""

\* the source types each branch accepts
SrcTypes(key) ==
    CASE key = "ri" -> {node_type.catchment}
      [] key = "tl" -> {node_type.groundwater, node_type.demand_site,
                        node_type.river_withdrawal, node_type.reservoir}
      [] key = "rf" -> {node_type.demand_site}

\* DstTypes with the Return Flow test widened by one type
DstTypesWidened(key, src_type) ==
    CASE key = "ri" -> {node_type.groundwater, node_type.catchment_inflow_node}
      [] key = "tl" /\ src_type = node_type.groundwater ->
            {node_type.demand_site, node_type.catchment}
      [] key = "tl" /\ src_type = node_type.demand_site ->
            {node_type.catchment, node_type.river_withdrawal, node_type.tributary_inflow}
      [] key = "tl" /\ src_type = node_type.river_withdrawal ->
            {node_type.demand_site, node_type.catchment}
      [] key = "tl" /\ src_type = node_type.reservoir ->
            {node_type.demand_site, node_type.catchment}
      [] key = "rf" -> {node_type.groundwater, node_type.return_flow_node,
                        node_type.catchment}

\* the destination types accepted under an accepted source type
DstTypes(key, src_type) ==
    CASE key = "ri" -> {node_type.groundwater, node_type.catchment_inflow_node}
      [] key = "tl" /\ src_type = node_type.groundwater ->
            {node_type.demand_site, node_type.catchment}
      [] key = "tl" /\ src_type = node_type.demand_site ->
            {node_type.catchment, node_type.river_withdrawal, node_type.tributary_inflow}
      [] key = "tl" /\ src_type = node_type.river_withdrawal ->
            {node_type.demand_site, node_type.catchment}
      [] key = "tl" /\ src_type = node_type.reservoir ->
            {node_type.demand_site, node_type.catchment}
      [] key = "rf" -> {node_type.groundwater, node_type.return_flow_node}

ArcRecord(a) == [type_id |-> a.type_id, src_id |-> a.src_id, dst_id |-> a.dst_id]

\* a link table that keeps the first destination of a source
SetLinkKeepFirst(lk, key, src_id, dst_id) ==
    IF src_id \in DOMAIN lk[key] THEN lk
    ELSE [lk EXCEPT ![key] = [s \in (DOMAIN lk[key]) \cup {src_id} |->
                                 IF s = src_id THEN dst_id ELSE lk[key][s]]]

\* self.links[key][node_src_id] = node_dst_id
SetLink(lk, key, src_id, dst_id) ==
    [lk EXCEPT ![key] = [s \in (DOMAIN lk[key]) \cup {src_id} |->
                            IF s = src_id THEN dst_id ELSE lk[key][s]]]

\* self.arcs[line_id] = {...}
SetArc(tbl, a) ==
    [i \in (DOMAIN tbl) \cup {a.obj_id} |-> IF i = a.obj_id THEN ArcRecord(a) ELSE tbl[i]]

\* a link arc: Runoff/Infiltration, Transmission Link or Return Flow
ScanLinkArc(a, key) ==
    IF a.src_id \notin DOMAIN nodes \/ a.dst_id \notin DOMAIN nodes
    THEN \* self.nodes[node_src_id] raises KeyError: the pass ends here
         /\ pc' = "aborted"
         /\ UNCHANGED <<arcs, links, warnings, rivers, river_break_nodes>>
    ELSE LET node_src == nodes[a.src_id]
             node_dst == nodes[a.dst_id]
         IN  /\ pc' = "arcs"
             /\ UNCHANGED <<rivers, river_break_nodes>>
             /\ IF node_src.type_id \in SrcTypes(key)
                THEN /\ arcs' = SetArc(arcs, a)
                     /\ IF node_dst.type_id \in DstTypes(key, node_src.type_id)
                        THEN /\ links' = SetLink(links, key, a.src_id, a.dst_id)
                             /\ UNCHANGED warnings
                        ELSE /\ warnings' = Append(warnings, Warning("dst_type", a.obj_id, a.dst_id))
                             /\ UNCHANGED links
                ELSE /\ warnings' = Append(warnings, Warning("src_type", a.obj_id, a.src_id))
                     /\ UNCHANGED <<arcs, links>>

\* the tables after a River or Canal line a; t holds rivers, arcs,
\* river_break_nodes and warnings
RiverArcStep(t, a) ==
    IF a.name # NoName
    THEN [rivers |-> [i \in (DOMAIN t.rivers) \cup {a.obj_id} |->
                        IF i = a.obj_id
                        THEN [name |-> a.name, id |-> a.obj_id, cat |-> a.cat,
                              type |-> a.type_id]
                        ELSE t.rivers[i]],
          arcs |-> SetArc(t.arcs, [a EXCEPT !.src_id = None, !.dst_id = None]),
          river_break_nodes |-> _get_break_node_distance_from_arc(t.river_break_nodes, a),
          warnings |-> t.warnings \o
                BreakWarnings(KeysInOrder(DOMAIN t.river_break_nodes), t.river_break_nodes, a)]
    ELSE [t EXCEPT !.warnings = Append(t.warnings,
                                       Warning("river_without_name", a.obj_id, None))]

\* the tables of the running pass
RiverTables ==
    [rivers |-> rivers, arcs |-> arcs, river_break_nodes |-> river_break_nodes,
     warnings |-> warnings]

\* a River or Canal arc
ScanRiverArc(a) ==
    /\ pc' = "arcs"
    /\ UNCHANGED links
    /\ rivers' = RiverArcStep(RiverTables, a).rivers
    /\ arcs' = RiverArcStep(RiverTables, a).arcs
    /\ river_break_nodes' = RiverArcStep(RiverTables, a).river_break_nodes
    /\ warnings' = RiverArcStep(RiverTables, a).warnings

\* one iteration of "for l in arcmap.viter('lines')"
ScanArc(a) ==
    /\ pc \in {"nodes", "arcs"}
    /\ arcmap' = Append(arcmap, a)
    /\ UNCHANGED <<nodes, errors, treeVars>>
    /\ UNCHANGED postVars
    /\ IF LinkKey(a.type_id) # ""
       THEN ScanLinkArc(a, LinkKey(a.type_id))
       ELSE IF a.type_id = arc_type.river \/ a.type_id = arc_type.canal
            THEN ScanRiverArc(a)
            ELSE /\ pc' = "arcs"
                 /\ warnings' = Append(warnings, Warning("arc_type", a.obj_id, None))
                 /\ UNCHANGED <<arcs, links, rivers, river_break_nodes>>

\* the end of the pass: return check_errors(...), get_errors()
EndPass ==
    /\ pc \in {"nodes", "arcs"}
    /\ pc' = "classified"
    /\ UNCHANGED <<geoVars, treeVars, postVars>>

\* the (hasError, diagnostics) pair the pass returns
check_errors == errors # <<>>

----------------------------------------------------------------------------
(* utils/RiverNode.py: the tree of rivers and break nodes *)

RootIx == 1
NoParent == 0

\* RiverNode._river_type
_river_type == 13

\* RiverNode.__init__; parent is the position of the parent object in tree
RiverNode(n_id, n_name, n_type, n_distance, parent) ==
    [node_id |-> n_id, node_name |-> n_name, node_type |-> n_type,
     node_distance |-> n_distance, node_cat |-> -1, parent |-> parent,
     main_river_id |-> None, secondary_river_id |-> None,
     secondary_river_name |-> NoName, secondary_river_cat |-> None]

\* RiverProcess.__init__: self.root
RootNode == RiverNode(-1, <<"r", "o", "o", "t">>, 0, 0, NoParent)

\* a search that finds nothing
find_nothing(t, value) == {}

\* anytree find_by_attr(root, name='node_id', value=...): the objects that match
find_by_attr(t, value) == {i \in 1..Len(t) : t[i].node_id = value}

\* NodeMixin.parent setter: detach from the old parent, append to the new one
Detach(ch, ix) == [p \in DOMAIN ch |-> SelectSeq(ch[p], LAMBDA c : c # ix)]
Attach(ch, ix, parent_ix) ==
    [p \in DOMAIN ch |-> IF p = parent_ix THEN Append(Detach(ch, ix)[p], ix)
                         ELSE Detach(ch, ix)[p]]

\* the river object set_main_river attaches to: the one found, or a new one
MainRiverIx(t, river_id) ==
    IF find_by_attr(t, river_id) = {} THEN Len(t) + 1
    ELSE CHOOSE i \in find_by_attr(t, river_id) : \A j \in find_by_attr(t, river_id) : i <= j

\* RiverNode.set_main_river, on the object at position ix; the tree objects after it
set_main_river_tree(t, ix, river) ==
    LET withRiver ==
            IF find_by_attr(t, river.id) = {}
            THEN Append(t, [RiverNode(river.id, river.name, _river_type,
                                      t[ix].node_distance, RootIx)
                            EXCEPT !.node_cat = river.cat])
            ELSE t
    IN  [withRiver EXCEPT ![ix].main_river_id = river.id,
                          ![ix].parent = MainRiverIx(t, river.id)]

\* the children lists after set_main_river
set_main_river_children(t, ch, ix, river) ==
    LET withRiver ==
            IF find_by_attr(t, river.id) = {}
            THEN Attach(ch @@ ((Len(t) + 1) :> <<>>), Len(t) + 1, RootIx)
            ELSE ch
    IN  Attach(withRiver, ix, MainRiverIx(t, river.id))

\* RiverNode.set_secondary_river
set_secondary_river(n, river) ==
    [n EXCEPT !.secondary_river_id = river.id,
              !.secondary_river_name = river.name,
              !.secondary_river_cat = river.cat]

----------------------------------------------------------------------------
(* RiverProcess._make_river_tree_segments_structure *)

\* break_keys = [k for k in self.river_break_nodes.keys() if k != '_by_name']
StartTree ==
    /\ pc = "classified"
    /\ break_keys' = KeysInOrder(DOMAIN river_break_nodes)
    /\ pc' = IF DOMAIN river_break_nodes = {} THEN "no_tree" ELSE "tree"
    /\ UNCHANGED <<geoVars, tree, children, river_segments, segments_list, segments_str,
                   segment_map, run>>
    /\ UNCHANGED postVars

\* the table without one key: self.river_break_nodes.pop(key_name)
Pop(tbl, key) == [k \in (DOMAIN tbl) \ {key} |-> tbl[k]]

\* the body of "for key_name in break_keys", for the first key left
AttachBreakNode ==
    /\ pc = "tree"
    /\ break_keys # <<>>
    /\ LET key_name == Head(break_keys)
           break_node == river_break_nodes[key_name]
           arc_id == break_node.main_river_id
           ix == Len(tree) + 1
           river_node == RiverNode(break_node.node_id, break_node.node_name,
                                   break_node.node_type, break_node.distance, RootIx)
           withNode == Append(tree, river_node)
           withChild == Attach(children @@ (ix :> <<>>), ix, RootIx)
           withMain == set_main_river_tree(withNode, ix, rivers[arc_id])
       IN  IF arc_id \notin DOMAIN rivers
           THEN \* self.rivers[arc_id] raises KeyError: the build ends here
                /\ pc' = "tree_aborted"
                /\ UNCHANGED <<break_keys, river_break_nodes, tree, children>>
           ELSE IF rivers[arc_id].type = 15
           THEN /\ river_break_nodes' = Pop(river_break_nodes, key_name)
                /\ break_keys' = Tail(break_keys)
                /\ UNCHANGED <<pc, tree, children>>
           ELSE /\ tree' = IF break_node.node_type = 13
                              /\ break_node.secondary_river_id \in DOMAIN rivers
                           THEN [withMain EXCEPT ![ix] = set_secondary_river(
                                        withMain[ix], rivers[break_node.secondary_river_id])]
                           ELSE withMain
                /\ children' = set_main_river_children(withNode, withChild, ix, rivers[arc_id])
                /\ break_keys' = Tail(break_keys)
                /\ UNCHANGED <<pc, river_break_nodes>>
    /\ UNCHANGED <<nodes, arcs, links, rivers, warnings, errors, arcmap, river_segments,
                   segments_list, segments_str, segment_map, run>>
    /\ UNCHANGED postVars

\* the end of the loop: return root
EndTree ==
    /\ pc = "tree"
    /\ break_keys = <<>>
    /\ pc' = "built"
    /\ UNCHANGED <<geoVars, treeVars, postVars>>

----------------------------------------------------------------------------
(* RiverNode: the derivation of the segments *)

\* offsets as v.segment reads them: a distance in map units, or a percentage
MapOffset(d) == [unit |-> "map", value |-> d]
Pct100 == [unit |-> "percent", value |-> 100]

Below == <<"B", "e", "l", "o", "w", " ">>
Headflow == <<" ", "H", "e", "a", "d", "f", "l", "o", "w">>

Segment(cat, start_offset, end_offset, break_name, river_name) ==
    [type |-> "L", cat |-> cat, start_offset |-> start_offset, end_offset |-> end_offset,
     break_name |-> break_name, river_name |-> river_name, feature_id |-> None]

\* sorted(..., key=lambda x: x.node_distance): a stable insertion into a sorted list
RECURSIVE InsertSorted(_, _, _)
InsertSorted(t, sorted, ix) ==
    IF sorted = <<>> THEN <<ix>>
    ELSE IF t[Head(sorted)].node_distance <= t[ix].node_distance
         THEN <<Head(sorted)>> \o InsertSorted(t, Tail(sorted), ix)
         ELSE <<ix>> \o sorted

RECURSIVE Sorted(_, _)
Sorted(t, ixs) ==
    IF ixs = <<>> THEN <<>>
    ELSE InsertSorted(t, Sorted(t, SubSeq(ixs, 1, Len(ixs) - 1)), ixs[Len(ixs)])

\* the children in the order of their attachment
get_order_children_unsorted(t, ch, ix) == ch[ix]

\* RiverNode.get_order_children_by_distance
get_order_children_by_distance(t, ch, ix) ==
    IF t[ix].parent = NoParent THEN ch[ix] ELSE Sorted(t, ch[ix])

\* the segments of a child whose tributary is cut at the distance of the child
ChildSegmentsCutTributary(t, ch, river_ix, order, i) ==
    LET river_node == t[river_ix]
        child_node == t[order[i]]
        node_before_name == IF i = 1 THEN river_node.node_name ELSE t[order[i - 1]].node_name
        node_before_distance == IF i = 1 THEN 0 ELSE t[order[i - 1]].node_distance
    IN  (IF /\ ch[order[i]] = <<>>
            /\ child_node.node_type = 13
            /\ child_node.secondary_river_id # None
            /\ child_node.secondary_river_id # 0
         THEN <<Segment(child_node.secondary_river_cat, MapOffset(0),
                        MapOffset(child_node.node_distance),
                        Below \o child_node.secondary_river_name \o Headflow,
                        child_node.secondary_river_name),
                Segment(child_node.secondary_river_cat,
                        MapOffset(child_node.node_distance), Pct100,
                        Below \o child_node.node_name,
                        child_node.secondary_river_name)>>
         ELSE <<>>)
        \o <<Segment(river_node.node_cat, MapOffset(node_before_distance),
                     MapOffset(child_node.node_distance),
                     IF i = 1 THEN Below \o node_before_name \o Headflow
                     ELSE Below \o node_before_name,
                     river_node.node_name)>>

\* the segments the i-th child of the order adds: steps (1) and (2) of the loop
ChildSegments(t, ch, river_ix, order, i) ==
    LET river_node == t[river_ix]
        child_node == t[order[i]]
        node_before_name == IF i = 1 THEN river_node.node_name ELSE t[order[i - 1]].node_name
        node_before_distance == IF i = 1 THEN 0 ELSE t[order[i - 1]].node_distance
    IN  (IF /\ ch[order[i]] = <<>>
            /\ child_node.node_type = 13
            /\ child_node.secondary_river_id # None
            /\ child_node.secondary_river_id # 0
         THEN <<Segment(child_node.secondary_river_cat, MapOffset(0), Pct100,
                        Below \o child_node.secondary_river_name \o Headflow,
                        child_node.secondary_river_name)>>
         ELSE <<>>)
        \o <<Segment(river_node.node_cat, MapOffset(node_before_distance),
                     MapOffset(child_node.node_distance),
                     IF i = 1 THEN Below \o node_before_name \o Headflow
                     ELSE Below \o node_before_name,
                     river_node.node_name)>>

RECURSIVE LoopSegments(_, _, _, _, _)
LoopSegments(t, ch, river_ix, order, i) ==
    IF i > Len(order) THEN <<>>
    ELSE ChildSegments(t, ch, river_ix, order, i) \o LoopSegments(t, ch, river_ix, order, i + 1)

\* RiverNode.get_break_input_by_river, called on the object at river_ix
get_break_input_by_river(t, ch, river_ix) ==
    LET order == get_order_children_by_distance(t, ch, river_ix)
        last_child == IF order = <<>> THEN t[river_ix] ELSE t[order[Len(order)]]
    IN  LoopSegments(t, ch, river_ix, order, 1)
        \o <<Segment(t[river_ix].node_cat, MapOffset(last_child.node_distance), Pct100,
                     Below \o last_child.node_name, t[river_ix].node_name)>>

\* RiverNode.get_segments_list, called on the root
RECURSIVE ConcatSegments(_, _, _)
ConcatSegments(t, ch, rivs) ==
    IF rivs = <<>> THEN <<>>
    ELSE get_break_input_by_river(t, ch, Head(rivs)) \o ConcatSegments(t, ch, Tail(rivs))

get_segments_list(t, ch) == ConcatSegments(t, ch, ch[RootIx])

\* RiverNode.get_segment_break_name
get_segment_break_name(segment_line_cat) ==
    <<segments_list[segment_line_cat].break_name, segments_list[segment_line_cat].river_name>>

\* the i-th segment numbered by its index from zero
NumberedFromZero(segs, i) == [segs[i] EXCEPT !.feature_id = i - 1]

\* the i-th segment after "segment['feature_id'] = ind + 1"
Numbered(segs, i) == [segs[i] EXCEPT !.feature_id = i]

\* the row of a segment in the input of v.segment
SegmentRow(seg) ==
    <<seg.type, seg.feature_id, seg.cat, seg.start_offset, seg.end_offset>>

----------------------------------------------------------------------------
(* RiverProcess.make_segment_map, after the tree *)

\* root.get_segments_list()
GetSegmentsList ==
    /\ pc = "built"
    /\ river_segments' = get_segments_list(tree, children)
    /\ UNCHANGED <<pc, geoVars, tree, children, break_keys, segments_list, segments_str,
                   segment_map, run>>
    /\ UNCHANGED postVars

\* GrassCoreAPI.make_segments: root_node.get_segments_format() and v.segment
GetSegmentsFormat ==
    /\ pc = "built"
    /\ river_segments' = [i \in 1..Len(river_segments) |-> Numbered(river_segments, i)]
    /\ segments_list' = [k \in (DOMAIN segments_list) \cup (1..Len(river_segments)) |->
                            IF k \in 1..Len(river_segments) THEN Numbered(river_segments, k)
                            ELSE segments_list[k]]
    /\ segments_str' = [i \in 1..Len(river_segments) |->
                            SegmentRow(Numbered(river_segments, i))]
    /\ pc' = "formatted"
    /\ UNCHANGED <<geoVars, tree, children, break_keys, segment_map, run>>
    /\ UNCHANGED postVars

\* the cats of the lines v.segment writes: one per row
FeatureCats == {segments_str[i][2] : i \in 1..Len(segments_str)}

\* RiverProcess._set_break_names_in_segments_map
SetBreakNames ==
    /\ pc = "formatted"
    /\ segment_map' = [c \in FeatureCats |-> get_segment_break_name(c)]
    /\ pc' = "named"
    /\ UNCHANGED <<geoVars, tree, children, break_keys, river_segments, segments_list,
                   segments_str, run>>
    /\ UNCHANGED postVars

----------------------------------------------------------------------------
(* FeatureProcess: the cells of one layer *)

\* the four subclasses of FeatureProcess
FeatureClasses == {"CatchmentProcess", "GroundwaterProcess", "RiverProcess",
                   "DemandSiteProcess"}

\* self._feature_opts, as each subclass sets it in __init__
_feature_opts(class_name) ==
    CASE class_name = "DemandSiteProcess" -> [order_criteria |-> "area", columns_to_save |-> 4]
      [] class_name = "RiverProcess" -> [order_criteria |-> "length", columns_to_save |-> 1]
      [] OTHER -> [order_criteria |-> "area", columns_to_save |-> 1]

\* config.fields_db['linkage'][feature_type][0]: the first letter of the column prefix
LinkagePrefix(class_name) ==
    CASE class_name = "CatchmentProcess" -> "C"
      [] class_name = "GroundwaterProcess" -> "G"
      [] class_name = "RiverProcess" -> "R"
      [] OTHER -> "D"

\* the length a map name is cut to in the name of its column: m_name[0:9]
ColumnNameCut == 9

\* get_main_map_name(only_name=True): the map set with is_main
get_main_map_name(lay) == lay.main_map

\* get_map_names(only_names=True, with_main_file=False): the secondary maps, in
\* the order of self.map_names
RECURSIVE get_map_names(_, _)
get_map_names(map_names, main_map) ==
    IF map_names = <<>> THEN <<>>
    ELSE IF Head(map_names) = main_map THEN get_map_names(Tail(map_names), main_map)
    ELSE <<Head(map_names)>> \o get_map_names(Tail(map_names), main_map)

\* get_columns(main_data=False): col_prefix[0] + m_name[0:9] per secondary map
get_columns(lay) ==
    LET secondary == get_map_names(lay.map_names, lay.main_map)
    IN  [i \in 1..Len(secondary) |->
            <<LinkagePrefix(lay.class_name)>>
                \o SubSeq(secondary[i], 1, Min(ColumnNameCut, Len(secondary[i])))]

\* Cell(row, col): a namedtuple, equal by value
Cell(row, col) == [row |-> row, col |-> col]

\* the dictionary "data" of make_cell_data_by_main_map; the River layer names the
\* feature '<river>,<segment>' and the other layers by the feature name
CellData(lay, map_name, t) ==
    [key |-> t.feature_name,
     name |-> IF lay.class_name = "RiverProcess"
              THEN t.feature_name \o <<",">> \o t.segment_name
              ELSE t.feature_name,
     metric |-> t.metric,
     cell_id |-> t.cell_id,
     map_name |-> map_name]

\* the place of area_name among the features of a cell, 0 when it is not there
IndexOfKey(features, area_name) ==
    IF \E i \in 1..Len(features) : features[i].key = area_name
    THEN CHOOSE i \in 1..Len(features) : features[i].key = area_name
    ELSE 0

\* _set_cell that keeps the first data of a feature and adds nothing to it
_set_cell_keep_first(tbl, cell, area_name, data) ==
    IF cell \in DOMAIN tbl
    THEN IF IndexOfKey(tbl[cell], area_name) # 0 THEN tbl
         ELSE [tbl EXCEPT ![cell] = Append(tbl[cell], data)]
    ELSE tbl @@ (cell :> <<data>>)

\* self.cells after _set_cell(cell, area_name, data, by_field)
_set_cell(tbl, cell, area_name, data) ==
    IF cell \in DOMAIN tbl
    THEN LET features == tbl[cell]
             at == IndexOfKey(features, area_name)
         IN  IF at # 0
             THEN [tbl EXCEPT ![cell] =
                        [features EXCEPT ![at].metric = features[at].metric + data.metric]]
             ELSE [tbl EXCEPT ![cell] = Append(features, data)]
    ELSE tbl @@ (cell :> <<data>>)

\* a feature put among features sorted by metric, ahead of those of the same metric
InsertByMetricAhead(ordered, d) ==
    LET ahead == Cardinality({i \in 1..Len(ordered) : ordered[i].metric > d.metric})
    IN  SubSeq(ordered, 1, ahead) \o <<d>> \o SubSeq(ordered, ahead + 1, Len(ordered))

\* a feature put in its place among features sorted by metric, largest first:
\* behind every feature of the same or of a larger metric
InsertByMetric(ordered, d) ==
    LET ahead == Cardinality({i \in 1..Len(ordered) : ordered[i].metric >= d.metric})
    IN  SubSeq(ordered, 1, ahead) \o <<d>> \o SubSeq(ordered, ahead + 1, Len(ordered))

\* sorted(area_targets.items(), key=lambda x: x[1][by_field], reverse=True): a
\* stable sort, features of the same metric stay in the order of the dictionary
RECURSIVE SortedByMetric(_)
SortedByMetric(features) ==
    IF features = <<>> THEN <<>>
    ELSE InsertByMetric(SortedByMetric(SubSeq(features, 1, Len(features) - 1)),
                        features[Len(features)])

_cell_order_criteria_default(cell, cells_dict) == SortedByMetric(cells_dict[cell])

\* self.cell_ids after _set_cell_by_criteria
_set_cell_by_criteria(ids, cells_dict) ==
    [c \in (DOMAIN ids) \cup (DOMAIN cells_dict) |->
        IF c \in DOMAIN cells_dict
        THEN LET area_targets_ordered == _cell_order_criteria_default(c, cells_dict)
             IN  [number_of_data |-> Len(area_targets_ordered),
                  cell_id |-> area_targets_ordered[1].cell_id,
                  row |-> c.row,
                  col |-> c.col,
                  data |-> area_targets_ordered]
        ELSE ids[c]]

\* the subsequence of the features of one map
RECURSIVE OfMap(_, _)
OfMap(features, map_name) ==
    IF features = <<>> THEN <<>>
    ELSE IF Head(features).map_name = map_name
         THEN <<Head(features)>> \o OfMap(Tail(features), map_name)
         ELSE OfMap(Tail(features), map_name)

\* get_cell_data_by_map
get_cell_data_by_map(ids, map_name, cell) ==
    IF cell \in DOMAIN ids THEN OfMap(ids[cell].data, map_name) ELSE <<>>

\* a message of append_error, by what it says
Diagnostic(kind, cell, map_name, found, kept) ==
    [kind |-> kind, cell |-> cell, map_name |-> map_name, found |-> found, kept |-> kept]

\* get_data_to_save(cell, main_data=True) without the columns left empty
MainDataUnpadded(lay, ids, cell) ==
    LET main_map == get_main_map_name(lay)
        col_data == get_cell_data_by_map(ids, main_map, cell)
        cols_number == _feature_opts(lay.class_name).columns_to_save
        values_to_save == Min(cols_number, Len(col_data))
    IN  [data |-> [i \in 1..values_to_save |-> col_data[i].name],
         errors |-> <<>>,
         warnings |-> <<>>]

\* get_data_to_save(cell, main_data=True): column i of the result is col_names[i-1];
\* append_error is called without is_warn, so the message is an error
MainData(lay, ids, cell) ==
    LET main_map == get_main_map_name(lay)
        col_data == get_cell_data_by_map(ids, main_map, cell)
        cols_number == _feature_opts(lay.class_name).columns_to_save
        values_to_save == Min(cols_number, Len(col_data))
    IN  [data |-> [i \in 1..cols_number |->
                        IF i <= values_to_save THEN col_data[i].name ELSE <<>>],
         errors |-> IF Len(col_data) > cols_number /\ lay.class_name = "DemandSiteProcess"
                    THEN <<Diagnostic("too_many", cell, main_map, Len(col_data), cols_number)>>
                    ELSE <<>>,
         warnings |-> <<>>]

\* the loop of get_data_to_save(cell, main_data=False) over the secondary maps
\* from the ind-th on; data is the dictionary so far
RECURSIVE SecondaryLoop(_, _, _, _, _)
SecondaryLoop(lay, ids, cell, ind, acc) ==
    LET map_names == get_map_names(lay.map_names, lay.main_map)
        col_names == get_columns(lay)
    IN  IF ind > Len(map_names) THEN acc
        ELSE LET cell_data == get_cell_data_by_map(ids, map_names[ind], cell)
                 value == IF cell_data # <<>> THEN cell_data[1].name ELSE <<>>
                 col == col_names[ind]
             IN  SecondaryLoop(lay, ids, cell, ind + 1,
                    [data |-> [k \in (DOMAIN acc.data) \cup {col} |->
                                    IF k = col THEN value ELSE acc.data[k]],
                     errors |-> IF Len(cell_data) > 1
                                THEN Append(acc.errors,
                                            Diagnostic("more_than_one", cell, map_names[ind],
                                                       Len(cell_data), 1))
                                ELSE acc.errors,
                     warnings |-> acc.warnings])

\* get_data_to_save(cell, main_data=False)
SecondaryData(lay, ids, cell) ==
    SecondaryLoop(lay, ids, cell, 1, [data |-> EmptyDict, errors |-> <<>>, warnings |-> <<>>])

\* the number of intersections the layer has handed to _set_cell
FedCount(f) ==
    LET RECURSIVE Sum(_)
        Sum(ks) == IF ks = {} THEN 0
                   ELSE LET k == CHOOSE x \in ks : TRUE IN f[k].count + Sum(ks \ {k})
    IN  Sum(DOMAIN f)

\* self.cell_ids while self.cells changes: the ordered lists hold the very
\* dictionaries of self.cells, so a metric added to shows in both
SameObjects(ids, tbl) ==
    [c \in DOMAIN ids |->
        [ids[c] EXCEPT !.data = [i \in 1..Len(ids[c].data) |->
                                    tbl[c][IndexOfKey(tbl[c], ids[c].data[i].key)]]]]

\* fed after one more call of _set_cell
Feed(f, cell, area_name, metric) ==
    LET k == <<cell, area_name>>
    IN  IF k \in DOMAIN f
        THEN [f EXCEPT ![k] = [count |-> f[k].count + 1, total |-> f[k].total + metric]]
        ELSE f @@ (k :> [count |-> 1, total |-> metric])

\* one iteration of "for feature_data in inter_map.viter(...)" in
\* make_cell_data_by_main_map or make_cell_data_by_secondary_maps, for the
\* intersection t of the map being read. The main map of the demand sites takes
\* a site only if it is a well and only its first geometry.
ReadFeature(t) ==
    /\ pc = "grid"
    /\ map_ix \in 1..Len(processor.map_names)
    /\ LET map_name == processor.map_names[map_ix]
           cell == Cell(t.row, t.col)
           gated == processor.class_name = "DemandSiteProcess" /\ map_name = processor.main_map
           taken == ~gated \/ (demand_sites[t.feature_name].is_well
                                /\ ~demand_sites[t.feature_name].processed)
       IN  /\ demand_sites' = IF gated /\ taken
                              THEN [demand_sites EXCEPT ![t.feature_name].processed = TRUE]
                              ELSE demand_sites
           /\ cells' = IF taken
                       THEN _set_cell(cells, cell, t.feature_name, CellData(processor, map_name, t))
                       ELSE cells
           /\ cell_ids' = SameObjects(cell_ids, cells')
           /\ fed' = IF taken THEN Feed(fed, cell, t.feature_name, t.metric) ELSE fed
    /\ UNCHANGED <<pc, processor, map_ix, linkage>>
    /\ UNCHANGED <<geoVars, treeVars, checkVars, superVars>>

\* the end of the loop of one map in make_grid_cell: _set_cell_by_criteria, and
\* the next map
EndMap ==
    /\ pc = "grid"
    /\ map_ix \in 1..Len(processor.map_names)
    /\ cell_ids' = _set_cell_by_criteria(cell_ids, cells)
    /\ map_ix' = map_ix + 1
    /\ pc' = IF map_ix = Len(processor.map_names) THEN "cells" ELSE "grid"
    /\ UNCHANGED <<processor, demand_sites, cells, fed, linkage>>
    /\ UNCHANGED <<geoVars, treeVars, checkVars, superVars>>

\* one iteration of "for i, cell in enumerate(self.consolidate_cells)" in
\* mark_linkage_active, for this layer: its columns of the cell
SaveCell(cell) ==
    /\ pc = "cells"
    /\ cell \notin DOMAIN linkage
    /\ LET required == MainData(processor, cell_ids, cell)
           additional == SecondaryData(processor, cell_ids, cell)
       IN  /\ linkage' = linkage @@ (cell :> [main |-> required.data,
                                              secondary |-> additional.data])
           /\ errors' = errors \o required.errors \o additional.errors
           /\ warnings' = warnings \o required.warnings \o additional.warnings
    /\ UNCHANGED <<pc, nodes, arcs, links, rivers, river_break_nodes, arcmap>>
    /\ UNCHANGED <<processor, map_ix, demand_sites, cells, cell_ids, fed>>
    /\ UNCHANGED <<treeVars, checkVars, superVars>>

----------------------------------------------------------------------------
(* GeoCheck and GeoCase: superpositions against the links of the scheme *)

\* GeoCheck._cases: GeoCase("groundwater", "demand_site"), GeoCase("groundwater", "catchment")
Cases == <<[base_name |-> "groundwater", super_name |-> "demand_site"],
           [base_name |-> "groundwater", super_name |-> "catchment"]>>

\* connectivity.get(key): the list of the key; None, here the empty list, when the
\* key is missing
Get(dict, key) == IF key \in DOMAIN dict THEN dict[key] ELSE <<>>

\* Python's truth value of a name or of a list: None, '' and [] are false
Truthy(v) == v # <<>>

\* self.connectivity[base].append(other), or a new list
Connect(conn, base, other) ==
    IF Truthy(Get(conn, base))
    THEN [conn EXCEPT ![base] = Append(conn[base], other)]
    ELSE [k \in (DOMAIN conn) \cup {base} |-> IF k = base THEN <<other>> ELSE conn[k]]

\* GeoCase.set_connection
set_connection(conn, case, src_info, dst_info) ==
    IF src_info.type_id = node_type[case.base_name]
       /\ dst_info.type_id = node_type[case.super_name]
    THEN Connect(conn, src_info.name, dst_info.name)
    ELSE IF src_info.type_id = node_type[case.super_name]
            /\ dst_info.type_id = node_type[case.base_name]
    THEN Connect(conn, dst_info.name, src_info.name)
    ELSE conn

\* the loop of GeoCheck.set_connectivity_cases over self.arcs.items(); conns holds
\* the connectivity of each case
RECURSIVE set_connectivity_cases(_, _, _, _)
set_connectivity_cases(conns, keys, arc_tbl, node_tbl) ==
    IF keys = <<>> THEN conns
    ELSE LET arc == arc_tbl[Head(keys)]
             next == IF arc.type_id = arc_type.river THEN conns
                     ELSE IF arc.src_id \notin DOMAIN node_tbl
                             \/ arc.dst_id \notin DOMAIN node_tbl
                     THEN conns
                     ELSE [i \in DOMAIN conns |->
                                set_connection(conns[i], Cases[i], node_tbl[arc.src_id],
                                               node_tbl[arc.dst_id])]
         IN  set_connectivity_cases(next, Tail(keys), arc_tbl, node_tbl)

\* a slot of a consolidated cell that no layer has filled: None
NoSlot == [number_of_data |-> 0, data |-> <<>>]

\* GeoCase.get_cell_element_data: the name of the winner; None, here the empty
\* name, for a slot that is None
get_cell_element_data(cell, feature_type) ==
    LET feature == cell[feature_type]
    IN  IF feature # NoSlot THEN feature.data[1].name ELSE NoName

\* self.errors[base_element].add(super_element): the dict keeps its insertion order
AddError(errs, base_element, super_element) ==
    IF \E i \in 1..Len(errs) : errs[i].base_element = base_element
    THEN [i \in 1..Len(errs) |->
            IF errs[i].base_element = base_element
            THEN [errs[i] EXCEPT !.super_elements = @ \cup {super_element}]
            ELSE errs[i]]
    ELSE Append(errs, [base_element |-> base_element, super_elements |-> {super_element}])

\* GeoCase.check_cell that takes a base element without connections for a failure
check_cell_strict(conn, errs, case, cell) ==
    LET base_element == get_cell_element_data(cell, case.base_name)
        super_element == get_cell_element_data(cell, case.super_name)
    IN  IF ~Truthy(base_element) \/ ~Truthy(super_element)
        THEN [check |-> TRUE, errors |-> errs]
        ELSE LET ok == Truthy(Get(conn, base_element))
                       /\ \E i \in 1..Len(conn[base_element]) :
                            conn[base_element][i] = super_element
             IN  [check |-> ok,
                  errors |-> IF ok THEN errs
                             ELSE AddError(errs, base_element, super_element)]

\* GeoCase.check_cell that refuses no cell
check_cell_passing(conn, errs, case, cell) == [check |-> TRUE, errors |-> errs]

\* GeoCase.check_cell: the value returned and self.errors after the call
check_cell(conn, errs, case, cell) ==
    LET base_element == get_cell_element_data(cell, case.base_name)
        super_element == get_cell_element_data(cell, case.super_name)
    IN  IF ~Truthy(base_element) \/ ~Truthy(super_element)
        THEN [check |-> TRUE, errors |-> errs]
        ELSE IF ~Truthy(Get(conn, base_element))
        THEN [check |-> TRUE, errors |-> errs]
        ELSE LET ok == \E i \in 1..Len(conn[base_element]) :
                            conn[base_element][i] = super_element
             IN  [check |-> ok,
                  errors |-> IF ok THEN errs
                             ELSE AddError(errs, base_element, super_element)]

\* the message of check_geometry for one entry of case.errors
CheckWarning(i, entry) ==
    [kind |-> "not_connected", case |-> i, base_element |-> entry.base_element,
     super_elements |-> entry.super_elements]

\* the messages of one case, one per super element refused
RECURSIVE CaseWarningsPerPair(_, _)
CaseWarningsPerPair(i, errs) ==
    IF errs = <<>> THEN <<>>
    ELSE LET entry == Head(errs)
             RECURSIVE Each(_)
             Each(ss) == IF ss = {} THEN <<>>
                         ELSE LET x == CHOOSE y \in ss : TRUE
                              IN <<CheckWarning(i, [entry EXCEPT !.super_elements = {x}])>>
                                    \o Each(ss \ {x})
         IN  Each(entry.super_elements) \o CaseWarningsPerPair(i, Tail(errs))

\* "for base_element, super_elements in case.errors.items()": one message each
CaseWarnings(i, errs) == [k \in 1..Len(errs) |-> CheckWarning(i, errs[k])]

\* the state of GeoCheck after __init__
NoCells == [size |-> 0, done |-> 0, info |-> <<>>, passed |-> <<>>]

\* GeoCheck.setup(consolidate_cells, arcs, nodes) with a dict of n cells
SetupCheck(n) ==
    /\ pc = "classified"
    /\ pc' = "setup"
    /\ consolidate_cells' = [NoCells EXCEPT !.size = n]
    /\ connectivity' = set_connectivity_cases(connectivity, KeysInOrder(DOMAIN arcs),
                                              arcs, nodes)
    /\ UNCHANGED <<case_errors, check, failed>>
    /\ UNCHANGED <<geoVars, treeVars, gridVars, superVars>>

\* GeoCheck.run up to the loop of check_geometry over the cells; without the flag,
\* without cells, arcs or nodes it appends its message with is_warn=False
RunCheck ==
    /\ pc \in {"classified", "setup"}
    /\ IF check /\ consolidate_cells.size > 0 /\ pc = "setup"
          /\ DOMAIN arcs # {} /\ DOMAIN nodes # {}
       THEN /\ pc' = "checking"
            /\ UNCHANGED errors
       ELSE /\ pc' = "checked"
            /\ errors' = Append(errors, [kind |-> "no_data"])
    /\ UNCHANGED <<nodes, arcs, links, rivers, river_break_nodes, warnings, arcmap>>
    /\ UNCHANGED <<treeVars, gridVars, checkVars, superVars>>

\* the cells a case has refused so far, counted by (case, base element, super
\* element): what check_cell returned False for
CountFailed(counts, refused) ==
    [t \in (DOMAIN counts) \cup refused |->
        (IF t \in DOMAIN counts THEN counts[t] ELSE 0) + (IF t \in refused THEN 1 ELSE 0)]

\* one iteration of "for _, info in self._consolidate_cells.items()": every case
\* checks the cell
CheckCell(info) ==
    /\ pc = "checking"
    /\ consolidate_cells.done < consolidate_cells.size
    /\ LET result == [i \in DOMAIN Cases |->
                        check_cell(connectivity[i], case_errors[i], Cases[i], info)]
       IN  /\ case_errors' = [i \in DOMAIN Cases |-> result[i].errors]
           /\ consolidate_cells' = [consolidate_cells EXCEPT
                                        !.done = @ + 1,
                                        !.info = info,
                                        !.passed = [i \in DOMAIN Cases |-> result[i].check]]
           /\ failed' = CountFailed(failed,
                {<<i, get_cell_element_data(info, Cases[i].base_name),
                      get_cell_element_data(info, Cases[i].super_name)>> :
                    i \in {j \in DOMAIN Cases : ~result[j].check}})
    /\ UNCHANGED <<pc, connectivity, check>>
    /\ UNCHANGED <<geoVars, treeVars, gridVars, superVars>>

\* the end of check_geometry: the messages of every case, with is_warn=True
EndCheck ==
    /\ pc = "checking"
    /\ consolidate_cells.done = consolidate_cells.size
    /\ pc' = "checked"
    /\ warnings' = warnings \o CaseWarnings(1, case_errors[1])
                            \o CaseWarnings(2, case_errors[2])
    /\ UNCHANGED <<nodes, arcs, links, rivers, river_break_nodes, errors, arcmap>>
    /\ UNCHANGED <<treeVars, gridVars, checkVars, superVars>>

----------------------------------------------------------------------------
(* postprocessors/SuperpositionCheck.py under the loops of GeoChecker *)

\* the node types of the base feature and of the secondary feature of the check
base_feature_type_id == node_type.catchment
secondary_feature_type_id == node_type.groundwater

\* SuperpositionCheck.__init__
NewSuperpositionCheck ==
    [nodes |-> EmptyDict, base_names |-> EmptyDict, secondary_names |-> EmptyDict,
     connections |-> EmptyDict, connection_error |-> EmptyDict,
     error_keys |-> <<>>, errors |-> <<>>]

\* GeoChecker before run: no loop at work
NoLoops == [nodes |-> 0, arcs |-> 0, cells |-> 0]

\* d[key] = value
SetItem(d, key, value) ==
    [k \in (DOMAIN d) \cup {key} |-> IF k = key THEN value ELSE d[k]]

\* d.get(key) is truthy: the key is there and its dictionary is not empty
GetTruthy(d, key) == key \in DOMAIN d /\ DOMAIN d[key] # {}

\* SuperpositionCheck.node_init_operation
node_init_operation(sp, node_id, node) ==
    IF node.type_id = base_feature_type_id
    THEN [sp EXCEPT !.nodes = SetItem(@, node_id, node),
                    !.base_names = SetItem(@, node.name, 0),
                    !.connections = SetItem(@, node.name, EmptyDict)]
    ELSE IF node.type_id = secondary_feature_type_id
    THEN [sp EXCEPT !.nodes = SetItem(@, node_id, node),
                    !.secondary_names = SetItem(@, node.name, 0)]
    ELSE sp

\* SuperpositionCheck.set_connection
set_superposition_connection(sp, base_info, secondary_info) ==
    LET known == IF GetTruthy(sp.connections, base_info.name)
                 THEN sp.connections[base_info.name] ELSE EmptyDict
    IN  [sp EXCEPT !.connections =
            SetItem(@, base_info.name, SetItem(known, secondary_info.name, 0))]

\* SuperpositionCheck.check_connection
check_connection(sp, base_name, secondary_name) ==
    IF GetTruthy(sp.connections, base_name)
    THEN secondary_name \in DOMAIN sp.connections[base_name]
    ELSE TRUE

\* SuperpositionCheck.arc_check_operation
arc_check_operation(sp, arc) ==
    IF /\ arc.src_id # None /\ arc.src_id # 0
       /\ arc.dst_id # None /\ arc.dst_id # 0
       /\ arc.src_id \in DOMAIN sp.nodes
       /\ arc.dst_id \in DOMAIN sp.nodes
    THEN IF /\ sp.nodes[arc.src_id].type_id = base_feature_type_id
            /\ sp.nodes[arc.dst_id].type_id = secondary_feature_type_id
         THEN set_superposition_connection(sp, sp.nodes[arc.src_id], sp.nodes[arc.dst_id])
         ELSE IF /\ sp.nodes[arc.src_id].type_id = secondary_feature_type_id
                 /\ sp.nodes[arc.dst_id].type_id = base_feature_type_id
         THEN set_superposition_connection(sp, sp.nodes[arc.dst_id], sp.nodes[arc.src_id])
         ELSE sp
    ELSE sp

\* SuperpositionCheck.add_error; error_keys is the order of the keys of the
\* dictionary connection_error
add_error(sp, base_element, super_element) ==
    LET of_base == IF GetTruthy(sp.connection_error, base_element)
                   THEN sp.connection_error[base_element] ELSE EmptyDict
        count == IF super_element \in DOMAIN of_base THEN of_base[super_element] ELSE 0
    IN  [sp EXCEPT !.connection_error =
                        SetItem(@, base_element, SetItem(of_base, super_element, count + 1)),
                   !.error_keys = IF base_element \in DOMAIN sp.connection_error THEN @
                                  ELSE Append(@, base_element)]

\* the messages make_errors appends for the bases of keys, in their order
RECURSIVE ErrorMessages(_, _)
ErrorMessages(keys, connection_error) ==
    IF keys = <<>> THEN <<>>
    ELSE <<[base |-> Head(keys), secondaries |-> DOMAIN connection_error[Head(keys)]]>>
         \o ErrorMessages(Tail(keys), connection_error)

\* SuperpositionCheck.make_errors
make_errors(sp) ==
    [sp EXCEPT !.errors =
        @ \o ErrorMessages(sp.error_keys, sp.connection_error)]

\* the inner loop of cell_check_operation: one base against the secondaries left
RECURSIVE CheckSecondaries(_, _, _)
CheckSecondaries(sp, base_name, secondaries) ==
    IF secondaries = <<>> THEN sp
    ELSE LET secondary_name == Head(secondaries)
             counted == [sp EXCEPT !.secondary_names[secondary_name] = @ + 1]
             after ==
                IF ~check_connection(counted, base_name, secondary_name)
                THEN add_error(counted, base_name, secondary_name)
                ELSE IF GetTruthy(counted.connections, base_name)
                     THEN [counted EXCEPT
                              !.connections[base_name][secondary_name] = @ + 1]
                     ELSE counted
         IN  CheckSecondaries(after, base_name, Tail(secondaries))

\* the outer loop of cell_check_operation
RECURSIVE CheckBases(_, _, _)
CheckBases(sp, bases, secondaries) ==
    IF bases = <<>> THEN sp
    ELSE CheckBases(
            CheckSecondaries([sp EXCEPT !.base_names[Head(bases)] = @ + 1],
                             Head(bases), secondaries),
            Tail(bases), secondaries)

\* SuperpositionCheck.cell_check_operation on a cell with the names bases of the
\* base feature and secondaries of the secondary feature
cell_check_operation(sp, bases, secondaries) ==
    make_errors(CheckBases(sp, bases, secondaries))

\* "+= 1" on a name that has no count raises KeyError
Countable(sp, bases, secondaries) ==
    /\ \A i \in 1..Len(bases) : bases[i] \in DOMAIN sp.base_names
    /\ bases # <<>> =>
          \A j \in 1..Len(secondaries) : secondaries[j] \in DOMAIN sp.secondary_names

\* GeoChecker.init_nodes_loop, one node: the nodes in the order of the dictionary
InitNode ==
    /\ pc = "classified"
    /\ loops.nodes < Cardinality(DOMAIN nodes)
    /\ LET node_id == KeysInOrder(DOMAIN nodes)[loops.nodes + 1]
       IN  superposition' = node_init_operation(superposition, node_id, nodes[node_id])
    /\ loops' = [loops EXCEPT !.nodes = @ + 1]
    /\ UNCHANGED <<pc, app, geoVars, treeVars, gridVars, checkVars>>

\* GeoChecker.check_arcs_loop, one arc, after build_checks has passed every node
CheckArc ==
    /\ pc = "classified"
    /\ loops.nodes = Cardinality(DOMAIN nodes)
    /\ loops.arcs < Cardinality(DOMAIN arcs)
    /\ loops.cells = 0
    /\ LET arc_id == KeysInOrder(DOMAIN arcs)[loops.arcs + 1]
       IN  superposition' = arc_check_operation(superposition, arcs[arc_id])
    /\ loops' = [loops EXCEPT !.arcs = @ + 1]
    /\ UNCHANGED <<pc, app, geoVars, treeVars, gridVars, checkVars>>

\* GeoChecker.check_cells_loop, one cell
CheckSuperposition(bases, secondaries) ==
    /\ pc = "classified"
    /\ loops.nodes = Cardinality(DOMAIN nodes)
    /\ loops.arcs = Cardinality(DOMAIN arcs)
    /\ loops.cells < MaxSuperCells
    /\ IF Countable(superposition, bases, secondaries)
       THEN /\ superposition' = cell_check_operation(superposition, bases, secondaries)
            /\ pc' = pc
       ELSE /\ pc' = "check_aborted"
            /\ UNCHANGED superposition
    /\ loops' = [loops EXCEPT !.cells = @ + 1]
    /\ UNCHANGED <<app, geoVars, treeVars, gridVars, checkVars>>

\* the end of perform_checks
EndSuperposition ==
    /\ pc = "classified"
    /\ loops.nodes = Cardinality(DOMAIN nodes)
    /\ loops.arcs = Cardinality(DOMAIN arcs)
    /\ pc' = "performed"
    /\ UNCHANGED <<geoVars, treeVars, postVars>>

----------------------------------------------------------------------------
(* AppKernel.run: the stages of the run and what halts it *)

\* the layer processors in the order run calls them
Layers == <<"catchment", "groundwater", "demand_site", "river">>

\* run has returned nothing
NoPair == [given |-> FALSE, has_error |-> FALSE]

\* an operation of the run: of AppKernel itself, or of the processor of a layer
Op(name, layer) == [op |-> name, layer |-> layer]

\* AppKernel after __init__
NewApp ==
    [at |-> "constructed", layer |-> 0, ran |-> <<>>, reported |-> {}, skipped |-> {},
     err |-> FALSE, raised |-> "", returned |-> NoPair]

\* raise RuntimeError(msg)
Raise(a, msg) == [a EXCEPT !.at = "raised", !.raised = msg]

\* an operation whose pair the run reads and goes on
GoesOn(a, name, op_err, msg) ==
    [a EXCEPT !.ran = Append(@, Op(name, "")),
              !.reported = IF op_err THEN @ \cup {name} ELSE @,
              !.err = op_err,
              !.at = name]

\* "_err, _ = self.operation(...)" and "if _err: raise RuntimeError(msg)"
HaltOn(a, name, op_err, msg) ==
    LET done == [a EXCEPT !.ran = Append(@, Op(name, "")),
                          !.reported = IF op_err THEN @ \cup {name} ELSE @,
                          !.err = op_err]
    IN  IF op_err THEN Raise(done, msg) ELSE [done EXCEPT !.at = name]

\* FeatureProcess._start of a layer: the checks of the layer, and, if they left
\* no error, the intersection with the linkage map and make_grid_cell
StartLayer(a, layer, checks_err, inter_err) ==
    LET checked == [a EXCEPT !.ran = Append(@, Op("check_names", layer)),
                             !.layer = @ + 1,
                             !.at = "processors"]
    IN  IF checks_err
        THEN [checked EXCEPT !.skipped = @ \cup {layer}]
        ELSE IF inter_err
        THEN Raise([checked EXCEPT !.ran = Append(@, Op("inter_map_with_linkage", layer))],
                   "ERROR AL INTERSECTAR")
        ELSE [checked EXCEPT !.ran = @ \o <<Op("inter_map_with_linkage", layer),
                                            Op("make_grid_cell", layer)>>]

AppUnchanged ==
    /\ UNCHANGED <<pc, geoVars, treeVars, gridVars, checkVars, superposition, loops>>

\* the test of the necessary files
ExistPaths(exist) ==
    /\ app.at = "constructed"
    /\ app' = IF exist THEN [app EXCEPT !.at = "files"]
              ELSE Raise(app, "UNO DE LOS ARCHIVOS IMPORTANTES NO EXISTE")
    /\ AppUnchanged

\* check_basic_columns of the linkage map
CheckBasicColumns(op_err) ==
    /\ app.at = "files"
    /\ app' = HaltOn(app, "check_basic_columns", op_err,
                     "ARCHIVO LINKAGE DE ENTRADA NO TIENE COLUMNAS BASE")
    /\ AppUnchanged

\* geo_processor.setup_arcs: the classification
SetupArcs(op_err) ==
    /\ app.at = "check_basic_columns"
    /\ app' = HaltOn(app, "setup_arcs", op_err,
                     "ERROR AL LEER GEOMETRIAS DESDE ESQUEMA WEAP")
    /\ AppUnchanged

\* the run of the next layer processor
RunProcessor(checks_err, inter_err) ==
    /\ app.at \in {"setup_arcs", "processors"}
    /\ app.layer < Len(Layers)
    /\ app' = StartLayer(app, Layers[app.layer + 1], checks_err, inter_err)
    /\ AppUnchanged

\* init_linkage_file
InitLinkageFile(op_err) ==
    /\ app.at = "processors"
    /\ app.layer = Len(Layers)
    /\ app' = HaltOn(app, "init_linkage_file", op_err, "NO ES POSIBLE FORMATEAR LINKAGE")
    /\ AppUnchanged

\* mark_linkage_active
MarkLinkageActive(op_err) ==
    /\ app.at = "init_linkage_file"
    /\ app' = HaltOn(app, "mark_linkage_active", op_err, "NO ES POSIBLE ESCRIBIR EN LINKAGE")
    /\ AppUnchanged

\* return _err, self.get_errors()
ReturnPair ==
    /\ app.at = "mark_linkage_active"
    /\ app' = [app EXCEPT !.at = "returned",
                          !.returned = [given |-> TRUE, has_error |-> app.err]]
    /\ AppUnchanged

----------------------------------------------------------------------------
(* The state after construction of the layer processors and of GeoCheck *)

\* no layer at work
NoProcessor == [class_name |-> "", map_names |-> <<>>, main_map |-> <<>>]

\* the processors and GeoCheck(config, error, check) after __init__
Processors(flag) ==
    /\ processor = NoProcessor
    /\ map_ix = 0
    /\ demand_sites = EmptyDict
    /\ cells = EmptyDict
    /\ cell_ids = EmptyDict
    /\ fed = EmptyDict
    /\ linkage = EmptyDict
    /\ consolidate_cells = NoCells
    /\ connectivity = [i \in DOMAIN Cases |-> EmptyDict]
    /\ case_errors = [i \in DOMAIN Cases |-> <<>>]
    /\ check = flag
    /\ failed = EmptyDict
    /\ superposition = NewSuperpositionCheck
    /\ loops = NoLoops
    /\ app = NewApp


----------------------------------------------------------------------------
(* The state after construction: GeoKernel.__init__ and RiverProcess.__init__ *)

Constructed ==
    /\ nodes = EmptyDict
    /\ arcs = EmptyDict
    /\ links = [tl |-> EmptyDict, ri |-> EmptyDict, rf |-> EmptyDict]
    /\ rivers = EmptyDict
    /\ river_break_nodes = EmptyDict
    /\ warnings = <<>>
    /\ errors = <<>>
    /\ arcmap = <<>>
    /\ tree = <<RootNode>>
    /\ children = (RootIx :> <<>>)
    /\ break_keys = <<>>
    /\ river_segments = <<>>
    /\ segments_list = EmptyDict
    /\ segments_str = <<>>
    /\ segment_map = EmptyDict
    /\ run = 1

Init ==
    /\ pc = "nodes"
    /\ Constructed
    /\ Processors(TRUE)

----------------------------------------------------------------------------
(* The layers the scans read *)

\* ObjIDs follow the scan order
NextNodeId == Cardinality(DOMAIN nodes) + 1
NextArcId == ArcIdBase + Len(arcmap) + 1

AllNodeTypes == {node_type.groundwater, node_type.catchment, node_type.demand_site,
                 node_type.return_flow_node, node_type.tributary_inflow,
                 node_type.catchment_inflow_node, node_type.river_withdrawal,
                 node_type.diversion_outflow, node_type.reservoir, OtherNodeType}

LinkArcTypes == {arc_type.runoff_infiltration, arc_type.transmission_link,
                 arc_type.return_flow}

\* the name of the n-th node of a layer of link endpoints: "N1", "N2", ...
Digit(n) == <<"0", "1", "2", "3", "4", "5", "6", "7", "8", "9">>[n + 1]
PlainName(n) == <<"N", Digit(n)>>

\* a point of the node layer, of any type
LinkNodeInputs ==
    {[obj_id |-> NextNodeId, type_id |-> t, name |-> PlainName(NextNodeId)] :
        t \in AllNodeTypes}

\* a link of the arc layer, between any two ObjIDs of 1..n
LinkArcsAmong(n) ==
    {[obj_id |-> NextArcId, type_id |-> t, name |-> NoName, src_id |-> s, dst_id |-> d,
      cat |-> NextArcId - ArcIdBase, proj |-> EmptyDict] :
        t \in LinkArcTypes, s \in 1..n, d \in 1..n}

LinkArcInputs == LinkArcsAmong(MaxNodes)

ScanLinkNodes ==
    /\ NextNodeId <= MaxNodes
    /\ \E p \in LinkNodeInputs : ScanNode(p)

ScanLinkArcs ==
    /\ NextArcId <= ArcIdBase + MaxArcs
    /\ \E a \in LinkArcInputs : ScanArc(a)

NextLinks == ScanLinkNodes \/ ScanLinkArcs \/ EndPass

SpecLinks == Init /\ [][NextLinks]_vars

\* the same pass over a layer of one link and its endpoints
PairArcInputs == LinkArcsAmong(MaxPairNodes)

ScanPairNodes ==
    /\ NextNodeId <= MaxPairNodes
    /\ \E p \in LinkNodeInputs : ScanNode(p)

ScanPairArcs ==
    /\ NextArcId <= ArcIdBase + MaxPairArcs
    /\ \E a \in PairArcInputs : ScanArc(a)

NextLinkPairs == ScanPairNodes \/ ScanPairArcs \/ EndPass

SpecLinkPairs == Init /\ [][NextLinkPairs]_vars

----------------------------------------------------------------------------
(* The links of a scheme of three nodes: a demand site, a catchment and a
   groundwater, which may feed both others *)

SourceNodes == <<node_type.demand_site, node_type.catchment, node_type.groundwater>>

ScanSourceNodes ==
    /\ NextNodeId <= Len(SourceNodes)
    /\ ScanNode([obj_id |-> NextNodeId, type_id |-> SourceNodes[NextNodeId],
                 name |-> PlainName(NextNodeId)])

ScanSourceArcs ==
    /\ NextNodeId > Len(SourceNodes)
    /\ NextArcId <= ArcIdBase + MaxSourceArcs
    /\ \E a \in LinkArcsAmong(Len(SourceNodes)) : ScanArc(a)

NextLinkSources == ScanSourceNodes \/ ScanSourceArcs \/ EndPass

SpecLinkSources == Init /\ [][NextLinkSources]_vars

----------------------------------------------------------------------------
(* The layers of break nodes and rivers *)

NameA == <<"A">>
NameB == <<"B">>

\* "A Inflow" with two letters swapped: not equal, the same letters
NameAInflowSwapped == <<"A", " ", "I", "n", "f", "l", "w", "o">>

\* "A Inflow" without its last letter
NameAInflo == <<"A", " ", "I", "n", "f", "l", "o">>

NameW == <<"W">>

RiverNodeTypes == {node_type.tributary_inflow, node_type.river_withdrawal}

RiverArcTypes == {arc_type.river, arc_type.canal}

RiverArcNames == {NoName, NameA, NameB}

\* a point of the node layer that breaks rivers, with a name of the set
BreakNodesNamed(names) ==
    {[obj_id |-> NextNodeId, type_id |-> t, name |-> n] :
        t \in RiverNodeTypes, n \in names}

\* what _check_point_on_line returns for each break node: None when the point is
\* not on the line, else the distance from the beginning of the line
Projections(max_dist) == [DOMAIN river_break_nodes -> {None} \cup (0..max_dist)]

\* a River or Canal line of the arc layer
RiverArcsWithin(max_dist) ==
    {[obj_id |-> NextArcId, type_id |-> t, name |-> n, src_id |-> None, dst_id |-> None,
      cat |-> NextArcId - ArcIdBase, proj |-> f] :
        t \in RiverArcTypes, n \in RiverArcNames, f \in Projections(max_dist)}

----------------------------------------------------------------------------
(* The classification of one break node against one line *)

ResolveNames == {NoName, NameA \o InflowSuffix, NameAInflowSwapped, NameAInflo, NameW}

ScanResolveNodes ==
    /\ NextNodeId <= MaxResolveNodes
    /\ \E p \in BreakNodesNamed(ResolveNames) : ScanNode(p)

ScanResolveArcs ==
    /\ NextArcId <= ArcIdBase + MaxResolveArcs
    /\ \E a \in RiverArcsWithin(MaxResolveDist) : ScanArc(a)

NextResolve == ScanResolveNodes \/ ScanResolveArcs \/ EndPass

SpecResolve == Init /\ [][NextResolve]_vars

----------------------------------------------------------------------------
(* The river pipeline: classification of break nodes and rivers, then
   RiverProcess.make_segment_map *)

BreakNodeNames == {NoName, NameA \o InflowSuffix, NameW}

ScanRiverNodes ==
    /\ NextNodeId <= MaxBreakNodes
    /\ \E p \in BreakNodesNamed(BreakNodeNames) : ScanNode(p)

ScanRiverArcs ==
    /\ NextArcId <= ArcIdBase + MaxRiverArcs
    /\ \E a \in RiverArcsWithin(MaxDist) : ScanArc(a)

NextRivers ==
    \/ ScanRiverNodes
    \/ ScanRiverArcs
    \/ EndPass
    \/ StartTree
    \/ AttachBreakNode
    \/ EndTree
    \/ GetSegmentsList
    \/ GetSegmentsFormat
    \/ SetBreakNames

SpecRivers == Init /\ [][NextRivers]_vars

----------------------------------------------------------------------------
(* The tree and the segments of a classified layer: the pass as one function of
   the layers, then RiverProcess.make_segment_map *)

\* the node loop over a whole layer; t holds nodes and river_break_nodes
RECURSIVE NodeLoop(_, _)
NodeLoop(t, points) ==
    IF points = <<>> THEN t
    ELSE NodeLoop([nodes |-> AddNode(t.nodes, Head(points)),
                   river_break_nodes |-> AddBreakNode(t.river_break_nodes, Head(points))],
                  Tail(points))

\* the arc loop over a whole layer of River and Canal lines
RECURSIVE RiverArcLoop(_, _)
RiverArcLoop(t, lines) ==
    IF lines = <<>> THEN t
    ELSE RiverArcLoop(RiverArcStep(t, Head(lines)), Tail(lines))

\* the two lines of the layer
TreeRiverIds == {ArcIdBase + 1, ArcIdBase + 2}

TreeRiverName(r) == IF r = ArcIdBase + 1 THEN NameA ELSE NameB

\* where a break node lies: on its main line at a distance from its beginning,
\* and, a Tributary Inflow only, on the line of the tributary it is named after
PlacedPoints ==
    {pp \in [type_id : RiverNodeTypes, main : {None} \cup TreeRiverIds,
             dist : 1..MaxTreeDist, sec : {None} \cup TreeRiverIds] :
        /\ pp.main = None => pp.dist = 1
        /\ pp.sec # None => pp.type_id = node_type.tributary_inflow /\ pp.sec # pp.main}

PointLayers == UNION {[1..n -> PlacedPoints] : n \in 0..MaxTreeNodes}

\* the i-th point of the node layer
PlacedPoint(i, pp) ==
    [obj_id |-> i, type_id |-> pp.type_id,
     name |-> IF pp.sec # None THEN TreeRiverName(pp.sec) \o InflowSuffix
              ELSE PlainName(i)]

\* the line r of the arc layer
PlacedLine(r, type_id, layer) ==
    [obj_id |-> r, type_id |-> type_id, name |-> TreeRiverName(r),
     src_id |-> None, dst_id |-> None, cat |-> r - ArcIdBase,
     proj |-> [b \in 1..Len(layer) |->
                 IF layer[b].main = r THEN layer[b].dist
                 ELSE IF layer[b].sec = r THEN 0
                 ELSE None]]

\* the state after processing_nodes_arcs has read the layers
InitClassified ==
    \E layer \in PointLayers, types \in [TreeRiverIds -> RiverArcTypes] :
        LET points == [i \in 1..Len(layer) |-> PlacedPoint(i, layer[i])]
            lines == <<PlacedLine(ArcIdBase + 1, types[ArcIdBase + 1], layer),
                       PlacedLine(ArcIdBase + 2, types[ArcIdBase + 2], layer)>>
            nt == NodeLoop([nodes |-> EmptyDict, river_break_nodes |-> EmptyDict], points)
            rt == RiverArcLoop([rivers |-> EmptyDict, arcs |-> EmptyDict,
                                river_break_nodes |-> nt.river_break_nodes,
                                warnings |-> <<>>], lines)
        IN  /\ pc = "classified"
            /\ nodes = nt.nodes
            /\ arcs = rt.arcs
            /\ links = [tl |-> EmptyDict, ri |-> EmptyDict, rf |-> EmptyDict]
            /\ rivers = rt.rivers
            /\ river_break_nodes = rt.river_break_nodes
            /\ warnings = rt.warnings
            /\ errors = <<>>
            /\ arcmap = lines
            /\ tree = <<RootNode>>
            /\ children = (RootIx :> <<>>)
            /\ break_keys = <<>>
            /\ river_segments = <<>>
            /\ segments_list = EmptyDict
            /\ segments_str = <<>>
            /\ segment_map = EmptyDict
            /\ run = 1
            /\ Processors(TRUE)

NextTree ==
    \/ StartTree
    \/ AttachBreakNode
    \/ EndTree
    \/ GetSegmentsList
    \/ GetSegmentsFormat
    \/ SetBreakNames

SpecTree == InitClassified /\ [][NextTree]_vars

\* the arc loop read line by line gives what the loop over the layer gives
ScanIsLoop ==
    pc \in {"nodes", "arcs", "classified"} =>
        RiverTables =
            RiverArcLoop([rivers |-> EmptyDict, arcs |-> EmptyDict,
                          river_break_nodes |->
                              [b \in DOMAIN river_break_nodes |->
                                  NewBreakNode(b, river_break_nodes[b].node_name,
                                               river_break_nodes[b].node_type)],
                          warnings |-> <<>>], arcmap)

----------------------------------------------------------------------------
(* The pipeline run again in the same process: AppKernel.__init__ makes a new
   GeoKernel and a new RiverProcess; the class RiverNode stays loaded *)

NewRun ==
    /\ pc \in {"named", "no_tree"}
    /\ run < MaxRuns
    /\ run' = run + 1
    /\ pc' = "nodes"
    /\ nodes' = EmptyDict
    /\ arcs' = EmptyDict
    /\ links' = [tl |-> EmptyDict, ri |-> EmptyDict, rf |-> EmptyDict]
    /\ rivers' = EmptyDict
    /\ river_break_nodes' = EmptyDict
    /\ warnings' = <<>>
    /\ errors' = <<>>
    /\ arcmap' = <<>>
    /\ tree' = <<RootNode>>
    /\ children' = (RootIx :> <<>>)
    /\ break_keys' = <<>>
    /\ river_segments' = <<>>
    /\ segments_str' = <<>>
    /\ segment_map' = EmptyDict
    /\ UNCHANGED segments_list
    /\ UNCHANGED postVars

RerunNodeTypes == {node_type.river_withdrawal, node_type.catchment_inflow_node}

\* a break node of a run, named after its place in the layer
RerunNodeInputs ==
    {[obj_id |-> NextNodeId, type_id |-> t, name |-> PlainName(NextNodeId)] :
        t \in RerunNodeTypes}

\* the river of a run: every break node lies on it, in the order of the layer
RerunArcInputs ==
    {[obj_id |-> NextArcId, type_id |-> arc_type.river, name |-> NameA,
      src_id |-> None, dst_id |-> None, cat |-> NextArcId - ArcIdBase,
      proj |-> [b \in DOMAIN river_break_nodes |-> b]]}

ScanRerunNodes ==
    /\ NextNodeId <= MaxBreakNodes
    /\ \E p \in RerunNodeInputs : ScanNode(p)

ScanRerunArcs ==
    /\ NextArcId <= ArcIdBase + MaxRerunArcs
    /\ \E a \in RerunArcInputs : ScanArc(a)

NextRerun ==
    \/ ScanRerunNodes
    \/ ScanRerunArcs
    \/ EndPass
    \/ StartTree
    \/ AttachBreakNode
    \/ EndTree
    \/ GetSegmentsList
    \/ GetSegmentsFormat
    \/ SetBreakNames
    \/ NewRun

SpecRerun == Init /\ [][NextRerun]_vars

----------------------------------------------------------------------------
(* One layer from its intersections with the grid to the linkage map *)

\* the intersections make_grid_cell reads over all the maps of the layer
MaxIntersections == 3

\* the map set as the main file, and the other maps; the names of the first two
\* differ behind their ninth letter only
MainMap == <<"b", "a", "s", "e">>
ExtraMaps == <<<<"s", "e", "c", "o", "n", "d", "a", "r", "y", "1">>,
               <<"s", "e", "c", "o", "n", "d", "a", "r", "y", "2">>,
               <<"o", "t", "h", "e", "r">>>>

\* self.map_names: the main map before one secondary map, or behind two
LayerMaps == {<<MainMap, ExtraMaps[3]>>, <<ExtraMaps[1], ExtraMaps[2], MainMap>>}

\* the layers read: GroundwaterProcess makes its cells as CatchmentProcess does
GridClasses == FeatureClasses \ {"GroundwaterProcess"}

\* the grid: two cells of one row
GridCells == {Cell(1, 1), Cell(1, 2)}

\* the names of the features of the maps, and of the segment of a river
FeatureNames == {<<"A">>, <<"B">>, <<"C">>}
SegmentNames == {<<"s">>, <<"t">>}

\* the segments of a river: the river B is cut in two, the others are whole
SegmentsOf(n) == IF n = <<"B">> THEN SegmentNames ELSE {<<"s">>}

\* the area or the length of an intersection
Metrics == {5, 8}

\* the demand sites of the node layer that the file of wells names: all but the first
Wells == FeatureNames \ {<<"A">>}

\* an intersection of a feature with a cell, as v.overlay leaves it: b_cat is the
\* cat of the cell in the linkage map
Intersections ==
    {t \in {[row |-> c.row, col |-> c.col, cell_id |-> c.col, feature_name |-> n,
             segment_name |-> g, metric |-> m] :
                c \in GridCells, n \in FeatureNames, m \in Metrics,
                g \in IF processor.class_name = "RiverProcess" THEN SegmentNames
                      ELSE {NoName}} :
        processor.class_name = "RiverProcess" => t.segment_name \in SegmentsOf(t.feature_name)}

\* a layer processor after its maps are imported and intersected with the grid
InitGrid ==
    \E class_name \in GridClasses, map_names \in LayerMaps :
        /\ pc = "grid"
        /\ Constructed
        /\ processor = [class_name |-> class_name, map_names |-> map_names,
                        main_map |-> MainMap]
        /\ map_ix = 1
        /\ demand_sites = IF class_name = "DemandSiteProcess"
                          THEN [n \in FeatureNames |->
                                    [is_well |-> n \in Wells, processed |-> FALSE]]
                          ELSE EmptyDict
        /\ cells = EmptyDict
        /\ cell_ids = EmptyDict
        /\ fed = EmptyDict
        /\ linkage = EmptyDict
        /\ consolidate_cells = NoCells
        /\ connectivity = [i \in DOMAIN Cases |-> EmptyDict]
        /\ case_errors = [i \in DOMAIN Cases |-> <<>>]
        /\ check = TRUE
        /\ failed = EmptyDict
        /\ superposition = NewSuperpositionCheck
        /\ loops = NoLoops
        /\ app = NewApp

\* check_names_between_maps has let the layer through: no name of a feature is in
\* more than one of its maps
InOneMap(name, map_name) ==
    \A c \in DOMAIN cells : \A i \in 1..Len(cells[c]) :
        cells[c][i].key = name => cells[c][i].map_name = map_name

\* the intersections read so far, kept or not
ReadFeatures ==
    /\ FedCount(fed) < MaxIntersections
    /\ map_ix \in 1..Len(processor.map_names)
    /\ \E t \in Intersections :
          /\ InOneMap(t.feature_name, processor.map_names[map_ix])
          /\ ReadFeature(t)

SaveCells == \E cell \in GridCells : SaveCell(cell)

NextCells ==
    \/ ReadFeatures
    \/ EndMap
    \/ SaveCells

SpecCells == InitGrid /\ [][NextCells]_vars

----------------------------------------------------------------------------
(* The classification of a small scheme, and GeoCheck.setup and run over it *)

\* the nodes and the links of the scheme, and the cells of the consolidated grid
MaxCheckNodes == 2
MaxCheckArcs == 1
MaxCheckCells == 3

\* the types of the two cases of GeoCheck
CheckNodeTypes == {node_type.groundwater, node_type.demand_site, node_type.catchment}

CheckNodeInputs ==
    {[obj_id |-> NextNodeId, type_id |-> t, name |-> PlainName(NextNodeId)] :
        t \in CheckNodeTypes}

CheckArcInputs == LinkArcsAmong(MaxCheckNodes)

\* GeoCheck is made with the check flag of the run, either value
InitCheck ==
    \E flag \in BOOLEAN :
        /\ pc = "nodes"
        /\ Constructed
        /\ Processors(flag)

ScanCheckNodes ==
    /\ NextNodeId <= MaxCheckNodes
    /\ \E p \in CheckNodeInputs : ScanNode(p)

ScanCheckArcs ==
    /\ NextArcId <= ArcIdBase + MaxCheckArcs
    /\ \E a \in CheckArcInputs : ScanArc(a)

Setup == \E n \in 0..MaxCheckCells : SetupCheck(n)

NextSetup ==
    \/ ScanCheckNodes
    \/ ScanCheckArcs
    \/ EndPass
    \/ Setup
    \/ RunCheck

SpecSetup == InitCheck /\ [][NextSetup]_vars

----------------------------------------------------------------------------
(* GeoCheck over the cells of a grid, for a scheme of four nodes *)

\* the node layer: a groundwater, a demand site, a catchment, a second demand site
SchemeNodes == <<node_type.groundwater, node_type.demand_site, node_type.catchment,
                 node_type.demand_site>>

\* the links the arc layer may hold, as (type, source, destination): the
\* groundwater feeds the first demand site and the catchment, the second demand
\* site returns to the groundwater
SchemeLinks == {<<arc_type.transmission_link, 1, 2>>,
                <<arc_type.transmission_link, 1, 3>>,
                <<arc_type.return_flow, 4, 1>>}

LinkOf(a) == <<a.type_id, a.src_id, a.dst_id>>

ScanSchemeNodes ==
    /\ NextNodeId <= Len(SchemeNodes)
    /\ ScanNode([obj_id |-> NextNodeId, type_id |-> SchemeNodes[NextNodeId],
                 name |-> PlainName(NextNodeId)])

\* the arc layer holds any of the links, each once, in any order
ScanSchemeArcs ==
    /\ NextNodeId > Len(SchemeNodes)
    /\ \E a \in LinkArcsAmong(Len(SchemeNodes)) :
          /\ LinkOf(a) \in SchemeLinks
          /\ \A i \in 1..Len(arcmap) : LinkOf(arcmap[i]) # LinkOf(a)
          /\ ScanArc(a)

\* get_cell_id_data of a layer for a cell: the entry of cell_ids, or None
WinnerSlot(name) == [number_of_data |-> 1, data |-> <<[name |-> name]>>]

\* the winners of a cell: a node of the scheme of the type of the layer, a
\* feature that is no node of the scheme, or none
SlotsOf(names) == {NoSlot} \cup {WinnerSlot(n) : n \in names}

\* a cell of get_consolidate_cells
CellInfos ==
    {[catchment |-> c, groundwater |-> g, river |-> NoSlot, demand_site |-> d] :
        c \in SlotsOf({PlainName(3), NameW}),
        g \in SlotsOf({PlainName(1), NameW}),
        d \in SlotsOf({PlainName(2), PlainName(4), NameW})}

CheckCells == \E info \in CellInfos : CheckCell(info)

NextCheck ==
    \/ ScanSchemeNodes
    \/ ScanSchemeArcs
    \/ EndPass
    \/ Setup
    \/ RunCheck
    \/ CheckCells
    \/ EndCheck

SpecCheck == Init /\ [][NextCheck]_vars

----------------------------------------------------------------------------
(* SuperpositionCheck of catchments over groundwaters, for a scheme of two
   catchments and two groundwaters *)

SuperNodes == <<node_type.catchment, node_type.groundwater, node_type.groundwater,
                node_type.catchment>>

\* the links the arc layer may hold: each catchment infiltrates to the first
\* groundwater, the first catchment to the second groundwater too
SuperLinks == {<<arc_type.runoff_infiltration, 1, 2>>,
               <<arc_type.runoff_infiltration, 1, 3>>,
               <<arc_type.runoff_infiltration, 4, 2>>}

ScanSuperNodes ==
    /\ NextNodeId <= Len(SuperNodes)
    /\ ScanNode([obj_id |-> NextNodeId, type_id |-> SuperNodes[NextNodeId],
                 name |-> PlainName(NextNodeId)])

ScanSuperArcs ==
    /\ NextNodeId > Len(SuperNodes)
    /\ Len(arcmap) < MaxSuperArcs
    /\ \E a \in LinkArcsAmong(Len(SuperNodes)) :
          /\ LinkOf(a) \in SuperLinks
          /\ \A i \in 1..Len(arcmap) : LinkOf(arcmap[i]) # LinkOf(a)
          /\ ScanArc(a)

\* the names get_cell_feature_data finds in a cell for the base feature and for
\* the secondary feature: nodes of the scheme, or a catchment that is none
CellBases == {<<>>, <<PlainName(1)>>, <<PlainName(4)>>, <<PlainName(1), PlainName(4)>>,
              <<NameW>>}
CellSecondaries == {<<>>, <<PlainName(2)>>, <<PlainName(3)>>,
                    <<PlainName(2), PlainName(3)>>}

CheckSuperpositions ==
    \E bases \in CellBases, secondaries \in CellSecondaries :
        CheckSuperposition(bases, secondaries)

NextSuperposition ==
    \/ ScanSuperNodes
    \/ ScanSuperArcs
    \/ EndPass
    \/ InitNode
    \/ CheckArc
    \/ CheckSuperpositions
    \/ EndSuperposition

SpecSuperposition == Init /\ [][NextSuperposition]_vars

----------------------------------------------------------------------------
(* The run of the application, whatever its operations report *)

NextRun ==
    \/ \E exist \in BOOLEAN : ExistPaths(exist)
    \/ \E op_err \in BOOLEAN : CheckBasicColumns(op_err)
    \/ \E op_err \in BOOLEAN : SetupArcs(op_err)
    \/ \E checks_err, inter_err \in BOOLEAN : RunProcessor(checks_err, inter_err)
    \/ \E op_err \in BOOLEAN : InitLinkageFile(op_err)
    \/ \E op_err \in BOOLEAN : MarkLinkageActive(op_err)
    \/ ReturnPair

SpecRun == Init /\ [][NextRun]_vars

----------------------------------------------------------------------------
(* Claims on the classification of links *)

\* the (source type, destination type) pairs each link category allows
Whitelist ==
    [ri |-> {<<node_type.catchment, node_type.groundwater>>,
             <<node_type.catchment, node_type.catchment_inflow_node>>},
     tl |-> {<<node_type.groundwater, node_type.demand_site>>,
             <<node_type.groundwater, node_type.catchment>>,
             <<node_type.demand_site, node_type.catchment>>,
             <<node_type.demand_site, node_type.river_withdrawal>>,
             <<node_type.demand_site, node_type.tributary_inflow>>,
             <<node_type.river_withdrawal, node_type.demand_site>>,
             <<node_type.river_withdrawal, node_type.catchment>>,
             <<node_type.reservoir, node_type.demand_site>>,
             <<node_type.reservoir, node_type.catchment>>},
     rf |-> {<<node_type.demand_site, node_type.groundwater>>,
             <<node_type.demand_site, node_type.return_flow_node>>}]

\* the arcs read so far that belong to a link category
LinkArcsRead == {arcmap[i] : i \in {j \in 1..Len(arcmap) : LinkKey(arcmap[j].type_id) # ""}}

EndpointsKnown(a) == a.src_id \in DOMAIN nodes /\ a.dst_id \in DOMAIN nodes

OnWhitelist(a) ==
    <<nodes[a.src_id].type_id, nodes[a.dst_id].type_id>> \in Whitelist[LinkKey(a.type_id)]

HasLink(a) ==
    /\ a.src_id \in DOMAIN links[LinkKey(a.type_id)]
    /\ links[LinkKey(a.type_id)][a.src_id] = a.dst_id

WarningsAbout(arc_id) == {i \in 1..Len(warnings) : warnings[i].arc = arc_id}

ErrorsAbout(arc_id) == {i \in 1..Len(errors) : errors[i].arc = arc_id}

\* C1: after classification, every link arc whose (source type, destination type)
\* pair is on its category's whitelist has its (source id, destination id) pair in
\* that category's link mapping.
C1_WhitelistedArcIsLinked ==
    pc = "classified" =>
        \A a \in LinkArcsRead : EndpointsKnown(a) /\ OnWhitelist(a) => HasLink(a)

\* C2: a link arc whose type pair is not on the whitelist is not in the link
\* mapping and has exactly one warning and no error.
C2_OffListArcWarnedOnce ==
    \A a \in LinkArcsRead :
        EndpointsKnown(a) /\ ~OnWhitelist(a) =>
            /\ ~HasLink(a)
            /\ Cardinality(WarningsAbout(a.obj_id)) = 1
            /\ ErrorsAbout(a.obj_id) = {}

\* C2 witness: a pass that read a link with an accepted source and an offending
\* destination: no link, one warning.
C2_Witness ==
    /\ pc = "classified"
    /\ \E a \in LinkArcsRead :
          /\ EndpointsKnown(a)
          /\ a.src_id # a.dst_id
          /\ nodes[a.src_id].type_id \in SrcTypes(LinkKey(a.type_id))
          /\ ~OnWhitelist(a)
          /\ ~HasLink(a)
          /\ Cardinality(WarningsAbout(a.obj_id)) = 1

\* C3: a link arc that names a node id missing from the Node table records no
\* link, is warned about, and does not end the pass.
C3_MissingEndpointNotFatal ==
    \A a \in LinkArcsRead :
        ~EndpointsKnown(a) =>
            /\ pc # "aborted"
            /\ ~HasLink(a)
            /\ WarningsAbout(a.obj_id) # {}

\* C4: after classification, a link arc whose type pair is off the whitelist is
\* in the Arc table, whichever endpoint offends.
C4_OffListArcInArcTable ==
    pc = "classified" =>
        \A a \in LinkArcsRead :
            EndpointsKnown(a) /\ ~OnWhitelist(a) => a.obj_id \in DOMAIN arcs

----------------------------------------------------------------------------
(* Claims on the resolution of break nodes against rivers *)

\* the line the arc loop read last
LastArc == arcmap[Len(arcmap)]

\* the state right after a named River or Canal line has been read
RiverArcJustRead ==
    /\ pc = "arcs"
    /\ arcmap # <<>>
    /\ LastArc.type_id \in RiverArcTypes
    /\ LastArc.name # NoName

\* the Tributary Inflow break nodes whose projection lies on the line
TributariesOn(a) ==
    {b \in DOMAIN river_break_nodes :
        river_break_nodes[b].node_type = node_type.tributary_inflow /\ a.proj[b] # None}

\* "<arc name> Inflow"
InflowName(a) == a.name \o <<" ", "I", "n", "f", "l", "o", "w">>

\* the similarity ratio of two names is at least num/den
RatioAtLeast(x, y, num, den) == 2 * QuickMatches(x, y) * den >= num * (Len(x) + Len(y))

WarningsOn(a, b) == {i \in 1..Len(warnings) : warnings[i].arc = a.obj_id /\ warnings[i].node = b}

\* C5: for a Tributary Inflow break node whose projection lies on a river arc named
\* A: a node named exactly "A Inflow" gets the arc as secondary river without a
\* warning; otherwise a name whose similarity ratio to "A Inflow" is at least 0.9
\* gets the arc as secondary river with one warning; otherwise the arc becomes the
\* node's main river.
C5_TributaryResolution ==
    RiverArcJustRead =>
        \A b \in TributariesOn(LastArc) :
            LET brk == river_break_nodes[b]
            IN  IF brk.node_name = InflowName(LastArc)
                THEN /\ brk.secondary_river_id = LastArc.obj_id
                     /\ WarningsOn(LastArc, b) = {}
                ELSE IF RatioAtLeast(brk.node_name, InflowName(LastArc), 9, 10)
                THEN /\ brk.secondary_river_id = LastArc.obj_id
                     /\ Cardinality(WarningsOn(LastArc, b)) = 1
                ELSE /\ brk.main_river_id = LastArc.obj_id
                     /\ brk.distance = LastArc.proj[b]

\* C5 witness: a river arc read with a tributary on it whose name is close to, but
\* not equal to, "<arc name> Inflow": the arc is its secondary river, one warning.
C5_Witness ==
    /\ RiverArcJustRead
    /\ \E b \in TributariesOn(LastArc) :
          /\ river_break_nodes[b].node_name # InflowName(LastArc)
          /\ RatioAtLeast(river_break_nodes[b].node_name, InflowName(LastArc), 9, 10)
          /\ river_break_nodes[b].secondary_river_id = LastArc.obj_id
          /\ river_break_nodes[b].main_river_id = None
          /\ Cardinality(WarningsOn(LastArc, b)) = 1

----------------------------------------------------------------------------
(* Claims on the tree of rivers and break nodes *)

\* _make_river_tree_segments_structure has returned
TreeBuilt == pc \in {"built", "formatted", "named"}

\* _make_river_tree_segments_structure has returned or raised
BuildEnded == TreeBuilt \/ pc = "tree_aborted"

IsChildOf(ix, parent_ix) ==
    /\ tree[ix].parent = parent_ix
    /\ \E k \in 1..Len(children[parent_ix]) : children[parent_ix][k] = ix

\* the objects of the tree made for an id of the node or arc layer
ObjectsOf(id) == {i \in 1..Len(tree) : tree[i].node_id = id}

\* the objects of the tree that stand for rivers
RiverIxs == {r \in 1..Len(tree) : tree[r].node_id \in DOMAIN rivers}

\* the break nodes of the table whose main river is a river that is no Canal
BreakNodesOfRivers ==
    {b \in DOMAIN river_break_nodes :
        /\ river_break_nodes[b].main_river_id \in DOMAIN rivers
        /\ rivers[river_break_nodes[b].main_river_id].type # arc_type.canal}

\* C6: after the tree is built from a break node table of the classification,
\* every break node whose main river is not a Canal is a child of the tree node of
\* its main river, and every river node is a child of the root.
C6_BreakNodesUnderMainRiver ==
    BuildEnded =>
        /\ \A b \in BreakNodesOfRivers :
              \E i \in ObjectsOf(b) :
                 \E r \in ObjectsOf(river_break_nodes[b].main_river_id) :
                    IsChildOf(i, r)
        /\ \A r \in RiverIxs : IsChildOf(r, RootIx)

\* the length of every line of the arc layer
RiverLength == MaxTreeDist

KidsOf(r) == {children[r][k] : k \in 1..Len(children[r])}

\* the break nodes of river r lie at distinct distances strictly inside the line
StrictlyInside(r) ==
    /\ \A c \in KidsOf(r) : 0 < tree[c].node_distance /\ tree[c].node_distance < RiverLength
    /\ \A c, d \in KidsOf(r) : c # d => tree[c].node_distance # tree[d].node_distance

\* the tributary nodes of river r with a resolved secondary river
ResolvedTributaries(r) ==
    {c \in KidsOf(r) : /\ tree[c].node_type = node_type.tributary_inflow
                       /\ tree[c].secondary_river_id \in DOMAIN rivers}

\* the segments of river r that cut the line of r itself
OwnSegments(r) ==
    SelectSeq(get_break_input_by_river(tree, children, r),
              LAMBDA sg : sg.cat = tree[r].node_cat)

Contiguous(segs) ==
    /\ segs[1].start_offset = [unit |-> "map", value |-> 0]
    /\ segs[Len(segs)].end_offset = [unit |-> "percent", value |-> 100]
    /\ \A i \in 1..(Len(segs) - 1) :
          /\ segs[i].end_offset.unit = "map"
          /\ segs[i].end_offset = segs[i + 1].start_offset
          /\ segs[i].start_offset.value < segs[i].end_offset.value
    /\ segs[Len(segs)].start_offset.value < RiverLength

\* C7: for a river with n break nodes at distinct distances strictly between 0 and
\* the length of the river, the segments of the river are contiguous, increasing
\* and cover the line from 0 to 100%; they number n + 1, plus one segment per
\* tributary node with a resolved secondary river.
C7_SegmentsCoverRiver ==
    TreeBuilt =>
        \A r \in RiverIxs :
            StrictlyInside(r) =>
                /\ Len(get_break_input_by_river(tree, children, r))
                      = Cardinality(KidsOf(r)) + 1 + Cardinality(ResolvedTributaries(r))
                /\ Len(OwnSegments(r)) = Cardinality(KidsOf(r)) + 1
                /\ Contiguous(OwnSegments(r))

\* C7 witness: a river whose two break nodes were attached in the order opposite
\* to their distances, one of them a tributary with a secondary river.
C7_Witness ==
    /\ TreeBuilt
    /\ \E r \in RiverIxs :
          /\ StrictlyInside(r)
          /\ Len(children[r]) = 2
          /\ tree[children[r][1]].node_distance > tree[children[r][2]].node_distance
          /\ ResolvedTributaries(r) # {}

\* the objects of the tree whose main river is the river with this id
ReferencesTo(river_id) == {i \in 1..Len(tree) : tree[i].main_river_id = river_id}

\* C8: however many break nodes reference one main river, the tree holds at most
\* one river node for that river id, and it is the object made when the first
\* break node that references the river was attached.
C8_OneRiverNodePerRiver ==
    \A river_id \in DOMAIN rivers :
        /\ Cardinality(ObjectsOf(river_id)) <= 1
        /\ ObjectsOf(river_id) # {} <=> ReferencesTo(river_id) # {}
        /\ \A first \in ReferencesTo(river_id) :
              (\A i \in ReferencesTo(river_id) : first <= i)
                  => ObjectsOf(river_id) = {first + 1}

\* C8 witness: two break nodes attached under the same river node.
C8_Witness ==
    \E river_id \in DOMAIN rivers :
        /\ Cardinality(ReferencesTo(river_id)) = 2
        /\ \E r \in ObjectsOf(river_id) : Len(children[r]) = 2

\* C9: the flat segment list is numbered 1..k in list order, and the lookup maps
\* each id i of 1..k to the break name and the river name of the i-th segment.
C9_LookupFollowsList ==
    pc \in {"formatted", "named"} =>
        /\ Len(segments_str) = Len(river_segments)
        /\ \A i \in 1..Len(river_segments) :
              /\ river_segments[i].feature_id = i
              /\ segments_str[i][2] = i
              /\ i \in DOMAIN segments_list
              /\ segments_list[i].break_name = river_segments[i].break_name
              /\ segments_list[i].river_name = river_segments[i].river_name

\* C9 witness: a formatted list of four segments of two rivers, read back by name.
C9_Witness ==
    /\ pc = "named"
    /\ Len(river_segments) = 4
    /\ river_segments[1].river_name # river_segments[4].river_name
    /\ \A i \in 1..4 : /\ i \in DOMAIN segment_map
                       /\ segment_map[i] = <<river_segments[i].break_name,
                                             river_segments[i].river_name>>

----------------------------------------------------------------------------
(* Claims on repeated runs *)

\* C10: when the pipeline runs twice in the same process, the lookup the second
\* run reads for the lines of its segment map holds only entries the second run
\* wrote: every id of the lookup is an id of the second run's list and holds that
\* run's segment.
C10_LookupHoldsOnlyThisRun ==
    (run = 2 /\ pc \in {"formatted", "named"} /\ segments_str # <<>>) =>
        \A k \in DOMAIN segments_list :
            /\ k \in 1..Len(river_segments)
            /\ segments_list[k] = river_segments[k]

----------------------------------------------------------------------------
(* Claims on the cells of a layer *)

\* the features self.cells holds for a cell under one name
RecordsOf(cell, name) ==
    IF cell \in DOMAIN cells
    THEN {i \in 1..Len(cells[cell]) : cells[cell][i].key = name}
    ELSE {}

\* the features of the ordered list of a cell under one name
OrderedRecordsOf(cell, name) ==
    IF cell \in DOMAIN cell_ids
    THEN {i \in 1..Len(cell_ids[cell].data) : cell_ids[cell].data[i].key = name}
    ELSE {}

InsertedAt(cell, d) == IndexOfKey(cells[cell], d.key)

\* C12: once the maps are read, the ordered list of every cell holds the features
\* of the cell, each once, by metric from the largest down, and features of the
\* same metric in the order they were first inserted; the winner of the cell is
\* the head of that list. With A of 5, B of 8 and C of 8 in the main map of a
\* layer of one column, the name written is the one of B and C inserted first.
C12_OrderedByMetricThenInsertion ==
    pc = "cells" =>
        \A cell \in DOMAIN cells :
            LET data == cell_ids[cell].data
            IN  /\ cell \in DOMAIN cell_ids
                /\ Len(data) = Len(cells[cell])
                /\ cell_ids[cell].number_of_data = Len(data)
                /\ cell_ids[cell].cell_id = data[1].cell_id
                /\ \A i \in 1..Len(data) : data[i] = cells[cell][InsertedAt(cell, data[i])]
                /\ \A i, j \in 1..Len(data) :
                        i < j => \/ data[i].metric > data[j].metric
                                 \/ /\ data[i].metric = data[j].metric
                                    /\ InsertedAt(cell, data[i]) < InsertedAt(cell, data[j])
                /\ (/\ cell \in DOMAIN linkage
                    /\ Len(linkage[cell].main) = 1
                    /\ Len(data) = 3
                    /\ \A i \in 1..3 : data[i].map_name = processor.main_map
                    /\ \E i \in 1..3 : data[i].key = <<"A">> /\ data[i].metric = 5
                    /\ \E i \in 1..3 : data[i].key = <<"B">> /\ data[i].metric = 8
                    /\ \E i \in 1..3 : data[i].key = <<"C">> /\ data[i].metric = 8)
                   => LET b == IndexOfKey(cells[cell], <<"B">>)
                          c == IndexOfKey(cells[cell], <<"C">>)
                      IN  linkage[cell].main[1] = cells[cell][IF b < c THEN b ELSE c].name

\* C12 witness: a cell of a layer of one column that read C of 8, then A of 5, then
\* B of 8, and wrote the name of C.
C12_Witness ==
    /\ pc = "cells"
    /\ processor.class_name = "CatchmentProcess"
    /\ \E cell \in DOMAIN linkage :
          /\ cell \in DOMAIN cells
          /\ Len(cells[cell]) = 3
          /\ cells[cell][1].key = <<"C">> /\ cells[cell][1].metric = 8
          /\ cells[cell][2].key = <<"A">> /\ cells[cell][2].metric = 5
          /\ cells[cell][3].key = <<"B">> /\ cells[cell][3].metric = 8
          /\ \A i \in 1..3 : cells[cell][i].map_name = processor.main_map
          /\ linkage[cell].main = <<<<"C">>>>

\* the features of the main map that self.cells holds for a cell
MainFeatures(cell) ==
    IF cell \in DOMAIN cells
    THEN {i \in 1..Len(cells[cell]) : cells[cell][i].map_name = processor.main_map}
    ELSE {}

\* the features of one map that self.cells holds for a cell
FeaturesOfMap(cell, map_name) ==
    IF cell \in DOMAIN cells
    THEN {i \in 1..Len(cells[cell]) : cells[cell][i].map_name = map_name}
    ELSE {}

\* the features of a set that come ahead of the feature f: those of a larger
\* metric, and those of the same metric inserted earlier
AheadOf(cell, fs, f) ==
    {g \in fs : \/ cells[cell][g].metric > cells[cell][f].metric
                \/ cells[cell][g].metric = cells[cell][f].metric /\ g < f}

\* C13: for the main map of a layer of N columns and a cell with M features of
\* that map, N columns are written: column i, for i up to min(M, N), holds the name
\* of the i-th feature by metric from the largest down, and the other N - min(M, N)
\* columns are empty.
C13_ColumnsOfMainMap ==
    \A cell \in DOMAIN linkage :
        LET row == linkage[cell].main
            N == _feature_opts(processor.class_name).columns_to_save
            M == Cardinality(MainFeatures(cell))
        IN  /\ DOMAIN row = 1..N
            /\ \A i \in 1..N :
                  IF i <= Min(M, N)
                  THEN \E f \in MainFeatures(cell) :
                          /\ row[i] = cells[cell][f].name
                          /\ Cardinality(AheadOf(cell, MainFeatures(cell), f)) = i - 1
                  ELSE row[i] = <<>>

\* C13 witness: a layer of one column wrote a cell of two features, and a layer of
\* four columns a cell of two features and a cell of none.
C13_Witness ==
    \/ /\ _feature_opts(processor.class_name).columns_to_save = 1
       /\ \E cell \in DOMAIN linkage :
             /\ Cardinality(MainFeatures(cell)) = 2
             /\ linkage[cell].main # <<<<>>>>
    \/ /\ _feature_opts(processor.class_name).columns_to_save = 4
       /\ \E c1, c2 \in DOMAIN linkage :
             /\ Cardinality(MainFeatures(c1)) = 2
             /\ linkage[c1].main[2] # <<>>
             /\ linkage[c1].main[3] = <<>>
             /\ Cardinality(MainFeatures(c2)) = 0
             /\ linkage[c2].main = <<<<>>, <<>>, <<>>, <<>>>>

\* the messages of warning severity about too many features of the main map in a cell
TruncationWarnings(cell) ==
    {i \in 1..Len(warnings) :
        /\ warnings[i].kind = "too_many"
        /\ warnings[i].cell = cell}

\* C14: for every layer, a cell with M features of the main map written by a layer
\* of N < M columns has one message of warning severity that names the cell and
\* tells the M - N features left out.
C14_TruncationWarned ==
    \A cell \in DOMAIN linkage :
        LET N == _feature_opts(processor.class_name).columns_to_save
            M == Cardinality(MainFeatures(cell))
        IN  M > N =>
              /\ Cardinality(TruncationWarnings(cell)) = 1
              /\ \A i \in TruncationWarnings(cell) :
                    warnings[i].found - warnings[i].kept = M - N

\* the messages of a severity about more than one feature of a map in a cell
SeveralIn(log, cell, map_name) ==
    {i \in 1..Len(log) :
        /\ log[i].kind = "more_than_one"
        /\ log[i].cell = cell
        /\ log[i].map_name = map_name}

\* C15: for each secondary map of a layer one column is written per cell; it holds
\* the name of the first feature of that map in the order of the cell, and is
\* empty without one; a cell with more than one feature of the map has a message
\* of warning severity for it.
C15_ColumnPerSecondaryMap ==
    \A cell \in DOMAIN linkage :
        LET secondary == get_map_names(processor.map_names, processor.main_map)
            row == linkage[cell].secondary
        IN  /\ Cardinality(DOMAIN row) = Len(secondary)
            /\ \A m \in 1..Len(secondary) :
                  LET fs == FeaturesOfMap(cell, secondary[m])
                  IN  /\ get_columns(processor)[m] \in DOMAIN row
                      /\ IF fs = {}
                         THEN row[get_columns(processor)[m]] = <<>>
                         ELSE \E f \in fs :
                                /\ AheadOf(cell, fs, f) = {}
                                /\ row[get_columns(processor)[m]] = cells[cell][f].name
                      /\ Cardinality(fs) > 1 =>
                            /\ SeveralIn(warnings, cell, secondary[m]) # {}
                            /\ SeveralIn(errors, cell, secondary[m]) = {}

----------------------------------------------------------------------------
(* Claims on the check of superpositions *)

\* the elements of a list
Members(list) == {list[k] : k \in 1..Len(list)}

\* the base and the super element of the cell checked last, for a case
LastBase(i) == get_cell_element_data(consolidate_cells.info, Cases[i].base_name)
LastSuper(i) == get_cell_element_data(consolidate_cells.info, Cases[i].super_name)

\* the messages of check_geometry among the warnings
NotConnected == {k \in 1..Len(warnings) : warnings[k].kind = "not_connected"}

\* C16: for a cell whose base winner b is a key of the connectivity of a case and
\* whose super winner s is present, the case passes exactly when s is in
\* connectivity[b]; and when s is in connectivity[b], no cell with b and s is
\* refused or named in a warning.
C16_PassIffConnected ==
    \A i \in DOMAIN Cases :
        /\ (/\ consolidate_cells.done > 0
            /\ LastBase(i) \in DOMAIN connectivity[i]
            /\ Truthy(LastSuper(i)))
           => (consolidate_cells.passed[i]
                 <=> LastSuper(i) \in Members(connectivity[i][LastBase(i)]))
        /\ \A f \in DOMAIN failed :
              f[1] = i /\ f[2] \in DOMAIN connectivity[i]
                 => f[3] \notin Members(connectivity[i][f[2]])
        /\ \A k \in NotConnected :
              warnings[k].case = i
                 => \A s \in warnings[k].super_elements :
                        s \notin Members(Get(connectivity[i], warnings[k].base_element))

\* C16 witness: the groundwater is linked to both demand sites; a cell with it
\* and a feature that is no node was refused, and the last cell, with it and the
\* second demand site, passed.
C16_Witness ==
    /\ pc = "checking"
    /\ consolidate_cells.done = 2
    /\ LastBase(1) = PlainName(1)
    /\ LastSuper(1) = PlainName(4)
    /\ PlainName(1) \in DOMAIN connectivity[1]
    /\ Members(connectivity[1][PlainName(1)]) = {PlainName(2), PlainName(4)}
    /\ consolidate_cells.passed[1]
    /\ <<1, PlainName(1), NameW>> \in DOMAIN failed

\* C17: a base element that is no key of the connectivity of a case is never
\* refused and never named in a warning, whatever it lies over.
C17_UnknownBasePasses ==
    \A i \in DOMAIN Cases :
        /\ (/\ consolidate_cells.done > 0
            /\ LastBase(i) \notin DOMAIN connectivity[i])
           => consolidate_cells.passed[i]
        /\ \A f \in DOMAIN failed : f[1] = i => f[2] \in DOMAIN connectivity[i]
        /\ \A k \in NotConnected :
              warnings[k].case = i => warnings[k].base_element \in DOMAIN connectivity[i]

\* C17 witness: the check has ended; its last cell held a groundwater feature
\* that is no node over the first demand site, which the groundwater of the scheme
\* is linked to, and passed both cases.
C17_Witness ==
    /\ pc = "checked"
    /\ consolidate_cells.done > 0
    /\ LastBase(1) = NameW
    /\ LastSuper(1) = PlainName(2)
    /\ LastSuper(2) = PlainName(3)
    /\ PlainName(1) \in DOMAIN connectivity[1]
    /\ NameW \notin DOMAIN connectivity[1]
    /\ consolidate_cells.passed = <<TRUE, TRUE>>

\* the super elements a case has refused under a base element
RefusedUnder(i, b) == {f[3] : f \in {g \in DOMAIN failed : g[1] = i /\ g[2] = b}}

\* the messages of a case about a base element
CheckWarningsOn(i, b) ==
    {k \in NotConnected : warnings[k].case = i /\ warnings[k].base_element = b}

\* the base elements refused or warned about
BasesSeen ==
    {f[2] : f \in DOMAIN failed} \cup {warnings[k].base_element : k \in NotConnected}

\* C18: when the check ends, each case has one warning for each base element it
\* refused at least once and none for the others; the warning lists the super
\* elements refused under that base, each once, however many cells repeat a pair.
\* No such warning exists before the end.
C18_OneWarningPerBase ==
    /\ pc # "checked" => NotConnected = {}
    /\ pc = "checked" /\ consolidate_cells.done > 0 =>
          \A i \in DOMAIN Cases : \A b \in BasesSeen :
              IF RefusedUnder(i, b) = {}
              THEN CheckWarningsOn(i, b) = {}
              ELSE /\ Cardinality(CheckWarningsOn(i, b)) = 1
                   /\ \A k \in CheckWarningsOn(i, b) :
                         warnings[k].super_elements = RefusedUnder(i, b)

\* C18 witness: three cells, two of them with the same pair; the groundwater was
\* refused over two super elements, twice over one of them, and has one warning
\* that lists the two.
C18_Witness ==
    /\ pc = "checked"
    /\ consolidate_cells.done = 3
    /\ \E f, g \in DOMAIN failed :
          /\ f[1] = 1 /\ g[1] = 1 /\ f[2] = g[2] /\ f[3] # g[3]
          /\ failed[f] = 2 /\ failed[g] = 1
          /\ Cardinality(CheckWarningsOn(1, f[2])) = 1
          /\ \A k \in CheckWarningsOn(1, f[2]) : warnings[k].super_elements = {f[3], g[3]}

\* C19: whatever the cells, the arcs and the nodes, and with the check enabled or
\* not, GeoCheck.run adds no message of error severity.
C19_CheckAddsNoError ==
    \A k \in 1..Len(errors) : errors[k].kind # "no_data"

\* the links recorded between two nodes of the given names, in either direction
LinksBetween(b, s) ==
    {<<key, src>> \in {"tl", "ri", "rf"} \X DOMAIN nodes :
        /\ src \in DOMAIN links[key]
        /\ links[key][src] \in DOMAIN nodes
        /\ \/ nodes[src].name = b /\ nodes[links[key][src]].name = s
           \/ nodes[src].name = s /\ nodes[links[key][src]].name = b}

\* C20: every pair (b, s) of the connectivity of a case has a recorded link
\* between the nodes named b and s; an arc left out of the links gives no pair.
C20_ConnectivityFromLinks ==
    \A i \in DOMAIN Cases : \A b \in DOMAIN connectivity[i] :
        \A s \in Members(connectivity[i][b]) : LinksBetween(b, s) # {}

----------------------------------------------------------------------------
(* Claims on the link of a source *)

\* the places in the arc layer of the lines of a category that leave a source
\* and have their type pair on the whitelist
ValidFrom(key, src) ==
    {i \in 1..Len(arcmap) :
        /\ LinkKey(arcmap[i].type_id) = key
        /\ arcmap[i].src_id = src
        /\ EndpointsKnown(arcmap[i])
        /\ OnWhitelist(arcmap[i])}

\* C26: the link mapping of a category holds one destination per source: the
\* destination of the last line of the category, in scan order, that leaves the
\* source with a type pair on the whitelist; a source without such a line has no
\* entry, and the destinations of earlier lines are gone.
C26_LastValidArcWins ==
    \A key \in {"tl", "ri", "rf"} : \A src \in DOMAIN nodes :
        IF ValidFrom(key, src) = {}
        THEN src \notin DOMAIN links[key]
        ELSE /\ src \in DOMAIN links[key]
             /\ \E i \in ValidFrom(key, src) :
                   /\ \A j \in ValidFrom(key, src) : j <= i
                   /\ links[key][src] = arcmap[i].dst_id

\* C26 witness: two Transmission Links leave the same source for two different
\* destinations, both on the whitelist; the mapping holds the second only.
C26_Witness ==
    /\ pc = "classified"
    /\ \E src \in DOMAIN nodes :
          /\ ValidFrom("tl", src) = {1, 2}
          /\ arcmap[1].dst_id # arcmap[2].dst_id
          /\ links["tl"][src] = arcmap[2].dst_id

----------------------------------------------------------------------------
(* Claims on a river line without name *)

\* the River and Canal lines read so far that have no name
UnnamedRiverLines ==
    {i \in 1..Len(arcmap) :
        /\ arcmap[i].type_id \in RiverArcTypes
        /\ arcmap[i].name = NoName}

\* C22: a River or Canal line with an empty name produces a warning and is
\* still retained in the River and Arc tables after classification; no object
\* of the tree stands for it
C22_UnnamedRiverRetained ==
    \A i \in UnnamedRiverLines :
        /\ \E w \in WarningsAbout(arcmap[i].obj_id) :
              warnings[w].kind = "river_without_name"
        /\ arcmap[i].obj_id \in DOMAIN rivers
        /\ arcmap[i].obj_id \in DOMAIN arcs
        /\ \A n \in 1..Len(tree) : tree[n].node_id # arcmap[i].obj_id

----------------------------------------------------------------------------
(* Claims on the segments of a river without break nodes *)

\* the segments of the derived list that cut the line river_id
SegmentsOfLine(river_id) ==
    SelectSeq(get_segments_list(tree, children),
              LAMBDA sg : sg.cat = rivers[river_id].cat)

\* the break nodes of the table that lie on the line river_id
MainOf(river_id) ==
    {b \in DOMAIN river_break_nodes : river_break_nodes[b].main_river_id = river_id}

\* the break nodes of the table named after the line river_id
SecondaryOf(river_id) ==
    {b \in DOMAIN river_break_nodes : river_break_nodes[b].secondary_river_id = river_id}

WholeLine(sg) == sg.start_offset = MapOffset(0) /\ sg.end_offset = Pct100

\* C23 as stated: a river that has no break nodes yields zero segments in the
\* derived segment list.
C23_NoBreakNodesNoSegments ==
    TreeBuilt =>
        \A river_id \in DOMAIN rivers :
            MainOf(river_id) = {} => SegmentsOfLine(river_id) = <<>>

\* C23 amended: a river that is neither the main river nor the secondary river
\* of any break node yields zero segments in the derived segment list; a river
\* without break nodes that is the secondary river of a tributary node yields
\* only segments that span its whole line.
C23_UnreferencedRiverNoSegments ==
    TreeBuilt =>
        \A river_id \in DOMAIN rivers :
            MainOf(river_id) = {} =>
                /\ SecondaryOf(river_id) = {} => SegmentsOfLine(river_id) = <<>>
                /\ \A k \in 1..Len(SegmentsOfLine(river_id)) :
                      WholeLine(SegmentsOfLine(river_id)[k])

C23_Witness ==
    /\ TreeBuilt
    /\ \E r1, r2 \in DOMAIN rivers :
          /\ MainOf(r1) # {}
          /\ Len(SegmentsOfLine(r1)) >= 2
          /\ MainOf(r2) = {}
          /\ SecondaryOf(r2) = {}
          /\ SegmentsOfLine(r2) = <<>>

----------------------------------------------------------------------------
(* Claims on the list handed to the line-splitting step *)

\* C25: whenever the tree holds at least one river node, the segment list
\* formatted for the line-splitting step holds exactly the segments derived from
\* the tree, one row per derived segment, in the order of the derivation.
C25_FormattedIsDerived ==
    (pc \in {"formatted", "named"} /\ RiverIxs # {}) =>
        /\ Len(segments_str) = Len(get_segments_list(tree, children))
        /\ \A i \in 1..Len(segments_str) :
              segments_str[i] = SegmentRow(Numbered(get_segments_list(tree, children), i))

----------------------------------------------------------------------------
(* Claims on the offset ranges of the segments *)

\* the range of a segment along its line, in map units
RangeLo(sg) == sg.start_offset.value
RangeHi(sg) == IF sg.end_offset.unit = "percent" THEN RiverLength ELSE sg.end_offset.value

\* two ranges that share more than a point
Overlapping(sg1, sg2) ==
    /\ RangeLo(sg1) < RangeHi(sg2)
    /\ RangeLo(sg2) < RangeHi(sg1)

\* C27: in the flat segment list no river receives two segments with overlapping
\* offset ranges, whatever the tree, also when one river is both the secondary
\* river of a tributary node and the main river of other break nodes.
C27_NoOverlappingSegments ==
    TreeBuilt =>
        LET segs == get_segments_list(tree, children)
        IN  \A i, j \in 1..Len(segs) :
                (i < j /\ segs[i].cat = segs[j].cat) => ~Overlapping(segs[i], segs[j])

----------------------------------------------------------------------------
(* Claims on the segments of a river in one cell *)

\* the features of a cell that carry the name nm
NamedIn(tbl, cell, nm) ==
    IF cell \in DOMAIN tbl
    THEN {i \in 1..Len(tbl[cell]) : tbl[cell][i].name = nm}
    ELSE {}

\* C28: in the river layer, two different segments of the same river that
\* intersect the same cell are kept as two distinct features of that cell, each
\* with its own summed length: reading an intersection of a segment leaves the
\* cell with one feature named after that river and segment, whose length is
\* the length it had for that segment plus the length read.
C28_SegmentsKeptApart ==
    [][\A t \in Intersections :
          (processor.class_name = "RiverProcess" /\ ReadFeature(t)) =>
              LET cell == Cell(t.row, t.col)
                  nm == t.feature_name \o <<",">> \o t.segment_name
                  before == NamedIn(cells, cell, nm)
                  after == NamedIn(cells', cell, nm)
              IN  /\ Cardinality(after) = 1
                  /\ \A i \in after :
                        \/ before = {} /\ cells'[cell][i].metric = t.metric
                        \/ \E j \in before :
                              cells'[cell][i].metric = cells[cell][j].metric + t.metric]_vars

----------------------------------------------------------------------------
(* Claims on the order of the lines *)

\* the lines of the arc layer, last first
Reversed(lines) == [i \in 1..Len(lines) |-> lines[Len(lines) + 1 - i]]

\* the break node table after the arc loop over lines, from the table as the
\* node loop left it
BreakNodesAfter(lines) ==
    RiverArcLoop([rivers |-> EmptyDict, arcs |-> EmptyDict,
                  river_break_nodes |->
                      [b \in DOMAIN river_break_nodes |->
                          NewBreakNode(b, river_break_nodes[b].node_name,
                                       river_break_nodes[b].node_type)],
                  warnings |-> <<>>], lines).river_break_nodes

\* C30: the main river resolved for a break node does not depend on the order in
\* which the arcs are scanned, also when the node lies on more than one River or
\* Canal line: the layer read last line first resolves the same main river.
C30_MainRiverOrderFree ==
    pc = "classified" =>
        \A b \in DOMAIN river_break_nodes :
            river_break_nodes[b].main_river_id =
                BreakNodesAfter(Reversed(arcmap))[b].main_river_id

----------------------------------------------------------------------------
(* Claims on SuperpositionCheck *)

\* init_nodes_loop has passed every node of the network
NodesKnown ==
    /\ pc \in {"classified", "performed"}
    /\ loops.nodes = Cardinality(DOMAIN nodes)

\* the nodes of the network of the base type
BaseNodes == {id \in DOMAIN nodes : nodes[id].type_id = base_feature_type_id}

\* the names of the secondary elements a cell may hold
SecondaryNamesAsked == {PlainName(2), PlainName(3), NameW}

\* C24: check_connection(base, secondary) returns true without testing
\* membership only when the base element does not exist in the network; for
\* every node of the network of the base type, whatever its connection set, the
\* result equals whether secondary is in the connection set of that node.
C24_MembershipDecides ==
    NodesKnown =>
        \A id \in BaseNodes :
            /\ nodes[id].name \in DOMAIN superposition.connections
            /\ \A s \in SecondaryNamesAsked :
                  check_connection(superposition, nodes[id].name, s)
                      = (s \in DOMAIN superposition.connections[nodes[id].name])

\* the messages of the error list about the base element b
MessagesAbout(b) ==
    {k \in 1..Len(superposition.errors) : superposition.errors[k].base = b}

\* C29: after all cells are checked, the error list of SuperpositionCheck holds
\* exactly one message for each base element that has at least one disconnected
\* superposition and none for any other, however many cells were checked.
C29_OneMessagePerBase ==
    pc = "performed" =>
        \A b \in {PlainName(1), PlainName(4), NameW} :
            Cardinality(MessagesAbout(b))
                = IF b \in DOMAIN superposition.connection_error THEN 1 ELSE 0

----------------------------------------------------------------------------
(* Claims on what halts the run *)

\* the operations that validate the schema: the columns of the linkage map and
\* the classification of nodes and arcs
Validations == {"check_basic_columns", "setup_arcs"}

HasRun(name, layer) == \E k \in 1..Len(app.ran) : app.ran[k] = Op(name, layer)

\* C21 as stated: when a mandatory column is missing or the classification reports
\* an error, the run does not raise an exception.
C21_RunDoesNotRaise ==
    (app.reported \cap Validations # {}) => app.raised = ""

\* C21 amended: when check_basic_columns or the classification reports an error,
\* that operation returns its pair and the run raises RuntimeError at once: no
\* later stage runs and no pair reaches the caller. When the checks of a layer
\* report an error, only the intersection and the grid of that layer are skipped
\* and the run goes on with the next layer.
C21_RunHaltsOnValidation ==
    /\ \A name \in Validations :
          name \in app.reported =>
              /\ app.at = "raised"
              /\ app.ran[Len(app.ran)] = Op(name, "")
              /\ ~app.returned.given
    /\ \A k \in 1..Len(Layers) :
          Layers[k] \in app.skipped =>
              /\ ~HasRun("inter_map_with_linkage", Layers[k])
              /\ ~HasRun("make_grid_cell", Layers[k])
              /\ app.raised # "ERROR AL INTERSECTAR" \/ app.layer > k
              /\ (app.layer > k /\ k < Len(Layers)) => HasRun("check_names", Layers[k + 1])

C21_Witness ==
    /\ app.at = "raised"
    /\ app.reported = {"setup_arcs"}
    /\ Len(app.ran) = 2
    /\ app.raised = "ERROR AL LEER GEOMETRIAS DESDE ESQUEMA WEAP"
====
